---- MODULE Spec2Model ----
(***************************************************************************)
(* CMP infrastructure checker: the evaluation engine of checker.py (the    *)
(* threshold, expected-pattern, replica-mismatch and fixed-outcome         *)
(* policies), the remote runner of ssh_executor.py, and run_all_checks as  *)
(* a sequential state machine that builds the result list.                 *)
(*                                                                         *)
(* Texts whose content the code inspects (command output, expected         *)
(* substring, stored value) are sequences of one-character strings.        *)
(* Numbers read by float() are kept in hundredths (fixed point).           *)
(* Human-readable messages are records [text, a, b]: the fixed wording and *)
(* the numbers the f-string interpolates (0 when it interpolates none).    *)
(***************************************************************************)
EXTENDS Integers, Sequences, FiniteSets, TLC

VARIABLES
    inventory,      \* RemoteExecutor.inventory, loaded at construction
    checks_config,  \* CMPInfraChecker.checks_config, loaded at construction
    demo_mode,      \* CMPInfraChecker.demo_mode
    results,        \* CMPInfraChecker.results
    local,          \* the `results` list local to the running check_* call
    pc,             \* "idle", "running", "done": position of run_all_checks
    call,           \* index into RunOrder of the check_* call in progress
    item,           \* index of the next work item of that call
    log,            \* history: every runner call made, with its raw result
    deviations,     \* history: number of non-nominal runner results so far
    fn,             \* evaluation harness: the function applied and its inputs
    ret,            \* evaluation harness: the value it returned
    config_exists,  \* main: does the inventory / the catalog file exist
    args,           \* main: the --json and --quiet flags
    exit_code,      \* main: None while the process runs, then Some(exit)
    summary         \* history: the get_summary calls made, with their result

vars == <<inventory, checks_config, demo_mode, results, local, pc, call, item,
          log, deviations, fn, ret, config_exists, args, exit_code, summary>>

mainVars == <<config_exists, args, exit_code, summary>>

runVars == <<inventory, checks_config, demo_mode, results, local, pc, call,
             item, log, deviations>>

(***************************************************************************)
(* Bounds of the model.                                                    *)
(***************************************************************************)
MaxValue == 104        \* numerals 0..MaxValue are fed to the threshold policy
MaxThreshold == 6      \* thresholds 0..MaxThreshold (and 80, 100) are tried
MaxLines == 4          \* outputs of up to MaxLines records are tried
MaxDeviations == 1     \* non-nominal runner results per run
MaxOutcomes == 3       \* outcome lists of up to MaxOutcomes are summarized
MaxSummaryCalls == 2   \* get_summary calls recorded in one behaviour

(***************************************************************************)
(* Text helpers: Python str operations used by the code.                   *)
(***************************************************************************)
Chars(s) == [i \in 1..Len(s) |-> SubSeq(s, i, i)]

Min(a, b) == IF a <= b THEN a ELSE b

IsSpace(c) == c \in {" ", "\n", "\t"}

RECURSIVE LStrip(_)
LStrip(s) ==
    IF Len(s) > 0 /\ IsSpace(s[1]) THEN LStrip(SubSeq(s, 2, Len(s))) ELSE s

RECURSIVE RStrip(_)
RStrip(s) ==
    IF Len(s) > 0 /\ IsSpace(s[Len(s)])
    THEN RStrip(SubSeq(s, 1, Len(s) - 1))
    ELSE s

\* str.strip()
Strip(s) == RStrip(LStrip(s))

\* str.replace(c, '')
Remove(s, c) == SelectSeq(s, LAMBDA x : x # c)

\* str.split('\n')
RECURSIVE SplitLines(_)
SplitLines(s) ==
    IF \A i \in 1..Len(s) : s[i] # "\n"
    THEN <<s>>
    ELSE LET k == CHOOSE i \in 1..Len(s) :
                      s[i] = "\n" /\ \A j \in 1..(i - 1) : s[j] # "\n"
         IN  <<SubSeq(s, 1, k - 1)>> \o SplitLines(SubSeq(s, k + 1, Len(s)))

\* sub in text
Contains(text, sub) ==
    \E i \in 0..(Len(text) - Len(sub)) : SubSeq(text, i + 1, i + Len(sub)) = sub

\* Take without the limit
TakeAll(s, n) == s

\* text[:n]
Take(s, n) == SubSeq(s, 1, Min(n, Len(s)))

DigitChars == <<"0", "1", "2", "3", "4", "5", "6", "7", "8", "9">>

IsDigit(c) == \E d \in 1..10 : DigitChars[d] = c

DigitVal(c) == (CHOOSE d \in 1..10 : DigitChars[d] = c) - 1

\* str(n) of a non-negative integer, as interpolated by an f-string
RECURSIVE IntToStr(_)
IntToStr(n) ==
    IF n < 10 THEN <<DigitChars[n + 1]>>
    ELSE IntToStr(n \div 10) \o <<DigitChars[(n % 10) + 1]>>

RECURSIVE DigitsVal(_)
DigitsVal(s) ==
    IF Len(s) = 0 THEN 0
    ELSE 10 * DigitsVal(SubSeq(s, 1, Len(s) - 1)) + DigitVal(s[Len(s)])

AllDigits(s) == Len(s) > 0 /\ \A i \in 1..Len(s) : IsDigit(s[i])

\* float() keeps its result in hundredths
Scale == 100

(***************************************************************************)
(* float(text): [ok, val].  ok is FALSE where float() raises ValueError.   *)
(* Accepted here: an optional sign, digits, and an optional point followed *)
(* by one or two digits; val is the number in hundredths.  The other       *)
(* spellings float() accepts (exponents, inf, nan, underscores, more       *)
(* decimals) are not among the inputs of this model.                       *)
(***************************************************************************)
ParseFloat(text) ==
    LET s    == Strip(text)
        neg  == Len(s) > 0 /\ s[1] = "-"
        body == IF Len(s) > 0 /\ s[1] \in {"-", "+"}
                THEN SubSeq(s, 2, Len(s)) ELSE s
        dots == {i \in 1..Len(body) : body[i] = "."}
        ip   == IF dots = {} THEN body
                ELSE SubSeq(body, 1, (CHOOSE i \in dots : TRUE) - 1)
        fp   == IF dots = {} THEN <<>>
                ELSE SubSeq(body, (CHOOSE i \in dots : TRUE) + 1, Len(body))
        wellFormed ==
            /\ Cardinality(dots) <= 1
            /\ AllDigits(ip)
            /\ (dots # {} => AllDigits(fp) /\ Len(fp) <= 2)
        frac == IF Len(fp) = 0 THEN 0
                ELSE IF Len(fp) = 1 THEN 10 * DigitsVal(fp)
                ELSE DigitsVal(fp)
        mag  == Scale * DigitsVal(ip) + frac
    IN  IF wellFormed
        THEN [ok |-> TRUE, val |-> IF neg THEN 0 - mag ELSE mag]
        ELSE [ok |-> FALSE, val |-> 0]

(***************************************************************************)
(* CheckStatus and the messages of the evaluation engine.                  *)
(***************************************************************************)
CheckStatus == {"OK", "WARNING", "CRITICAL", "UNKNOWN"}

Msg(text, a, b) == [text |-> text, a |-> a, b |-> b]

\* Identifiers evaluated by the zero-is-healthy policy
zero_is_ok ==
    {"OS-005", "K8S-008", "K8S-009", "SVC-004", "SVC-006", "SVC-007",
     "SVC-008", "SVC-010"}

\* Upper end of the WARNING band of the zero-is-healthy policy (a count)
ZeroWarnMax == 3

(***************************************************************************)
(* _evaluate_threshold(value, threshold, check_id).  threshold is the      *)
(* catalog number; numeric_value (nv) is in hundredths, so                 *)
(* numeric_value < threshold * 0.8 reads 10 * nv < 8 * Scale * threshold.  *)
(***************************************************************************)
\* ZeroIsOkPolicy that takes a zero for a missing value
ZeroIsOkPolicyFalsyZero(nv) ==
    IF nv = 0
    THEN [status |-> "UNKNOWN", message |-> Msg("parse failed", 0, 0)]
    ELSE IF nv <= ZeroWarnMax * Scale
    THEN [status |-> "WARNING", message |-> Msg("needs attention", nv, 0)]
    ELSE [status |-> "CRITICAL",
          message |-> Msg("immediate action needed", nv, 0)]

\* the branch taken for an identifier of zero_is_ok
ZeroIsOkPolicy(nv) ==
    IF nv = 0
    THEN [status |-> "OK", message |-> Msg("normal", 0, 0)]
    ELSE IF nv <= ZeroWarnMax * Scale
    THEN [status |-> "WARNING", message |-> Msg("needs attention", nv, 0)]
    ELSE [status |-> "CRITICAL",
          message |-> Msg("immediate action needed", nv, 0)]

\* MagnitudePolicy with the upper comparison written <= (a value equal to
\* the threshold stays a WARNING)
MagnitudePolicyInclusive(nv, threshold) ==
    IF 10 * nv < 8 * Scale * threshold
    THEN [status |-> "OK", message |-> Msg("normal range", 0, 0)]
    ELSE IF nv <= Scale * threshold
    THEN [status |-> "WARNING",
          message |-> Msg("near threshold", threshold, 0)]
    ELSE [status |-> "CRITICAL",
          message |-> Msg("threshold exceeded", threshold, 0)]

\* the branch taken for every other identifier
MagnitudePolicy(nv, threshold) ==
    IF 10 * nv < 8 * Scale * threshold
    THEN [status |-> "OK", message |-> Msg("normal range", 0, 0)]
    ELSE IF nv < Scale * threshold
    THEN [status |-> "WARNING",
          message |-> Msg("near threshold", threshold, 0)]
    ELSE [status |-> "CRITICAL",
          message |-> Msg("threshold exceeded", threshold, 0)]

\* UsesZeroPolicy with one identifier dropped from the list
UsesZeroPolicyShortList(check_id) == check_id \in zero_is_ok \ {"SVC-010"}

\* check_id in zero_is_ok
UsesZeroPolicy(check_id) == check_id \in zero_is_ok

\* EvaluateThreshold that takes a text float() rejects for 0
EvaluateThresholdDefaultZero(value, threshold, check_id) ==
    LET p == ParseFloat(Remove(value, "%"))
    IN  IF UsesZeroPolicy(check_id)
        THEN ZeroIsOkPolicy(p.val)
        ELSE MagnitudePolicy(p.val, threshold)

EvaluateThreshold(value, threshold, check_id) ==
    LET p == ParseFloat(Remove(value, "%"))
    IN  IF ~p.ok
        THEN [status |-> "UNKNOWN", message |-> Msg("parse failed", 0, 0)]
        ELSE IF UsesZeroPolicy(check_id)
        THEN ZeroIsOkPolicy(p.val)
        ELSE MagnitudePolicy(p.val, threshold)

\* lines = [l.strip() for l in output.strip().split('\n') if l.strip()]
RecordLines(output) ==
    LET raw == SplitLines(Strip(output))
        kept == SelectSeq(raw, LAMBDA l : Len(Strip(l)) > 0)
    IN  [i \in 1..Len(kept) |-> Strip(kept[i])]

\* sum(1 for line in lines if expected in line)
OkCount(lines, expected) ==
    Cardinality({i \in 1..Len(lines) : Contains(lines[i], expected)})

(***************************************************************************)
(* _evaluate_expected(output, expected).                                   *)
(* ok_count >= total * 0.7 reads 10 * ok_count >= 7 * total.               *)
(***************************************************************************)
\* NoData without the comparison with the placeholder
NoDataEmptyOnly(output) == Len(output) = 0

\* not output or output == 'N/A'
NoData(output) == Len(output) = 0 \/ output = Chars("N/A")

\* ExpectedPolicy with the 70% comparison written >
ExpectedPolicyStrict(ok_count, total) ==
    IF ok_count = total
    THEN [status |-> "OK", message |-> Msg("all normal", ok_count, total)]
    ELSE IF 10 * ok_count > 7 * total
    THEN [status |-> "WARNING",
          message |-> Msg("some abnormal", ok_count, total)]
    ELSE [status |-> "CRITICAL",
          message |-> Msg("many abnormal", total - ok_count, 0)]

\* the classification of ok_count matching records out of total
ExpectedPolicy(ok_count, total) ==
    IF ok_count = total
    THEN [status |-> "OK", message |-> Msg("all normal", ok_count, total)]
    ELSE IF 10 * ok_count >= 7 * total
    THEN [status |-> "WARNING",
          message |-> Msg("some abnormal", ok_count, total)]
    ELSE [status |-> "CRITICAL",
          message |-> Msg("many abnormal", total - ok_count, 0)]

EvaluateExpected(output, expected) ==
    IF NoData(output)
    THEN [status |-> "UNKNOWN", message |-> Msg("no data", 0, 0)]
    ELSE LET lines == RecordLines(output)
         IN  IF Len(lines) = 0
             THEN [status |-> "UNKNOWN", message |-> Msg("no targets", 0, 0)]
             ELSE ExpectedPolicy(OkCount(lines, expected), Len(lines))

(***************************************************************************)
(* Dictionaries loaded from YAML are records; dict.get(key, default).      *)
(* An Optional[float] is None (the empty tuple) or Some(number).           *)
(***************************************************************************)
Get(d, key, default) == IF key \in DOMAIN d THEN d[key] ELSE default

None == <<>>

Some(x) == <<x>>

\* check.get('threshold')
Threshold(check) ==
    IF "threshold" \in DOMAIN check THEN Some(check.threshold) ELSE None

\* Characters kept by value[:200]
ValueLimit == 200

\* Most mismatch lines that are still a WARNING
ReplicaWarnMax == 3

(***************************************************************************)
(* CheckResult.  The timestamp field is left out.                          *)
(***************************************************************************)
CheckResult(check_id, name, category, subcategory, description, status, value, threshold, unit, message, target, severity) ==
    [check_id |-> check_id, name |-> name, category |-> category,
     subcategory |-> subcategory, description |-> description,
     status |-> status, value |-> value, threshold |-> threshold,
     unit |-> unit, message |-> message, target |-> target,
     severity |-> severity]

(***************************************************************************)
(* RemoteExecutor.execute_ssh on the raw result of the ssh subprocess:     *)
(*   [kind |-> "exit", rc, out]     the process ended with return code rc  *)
(*   [kind |-> "timeout"]           subprocess.TimeoutExpired              *)
(*   [kind |-> "no_client"]         FileNotFoundError                      *)
(*   [kind |-> "error", text]       any other exception, str(e) = text     *)
(* The ConnectionResult keeps success, stdout and error_message.           *)
(***************************************************************************)
\* Variant: a command that prints nothing counts as failed
ExecuteSshEmptyFails(raw) ==
    IF raw.kind = "exit"
    THEN [success |-> (raw.rc = 0 /\ Len(Strip(raw.out)) > 0),
          stdout |-> Strip(raw.out), error_message |-> ""]
    ELSE IF raw.kind = "timeout"
    THEN [success |-> FALSE, stdout |-> <<>>,
          error_message |-> "command timed out"]
    ELSE IF raw.kind = "no_client"
    THEN [success |-> FALSE, stdout |-> <<>>,
          error_message |-> "ssh client not found"]
    ELSE [success |-> FALSE, stdout |-> <<>>, error_message |-> raw.text]

ExecuteSsh(raw) ==
    IF raw.kind = "exit"
    THEN [success |-> (raw.rc = 0), stdout |-> Strip(raw.out),
          error_message |-> ""]
    ELSE IF raw.kind = "timeout"
    THEN [success |-> FALSE, stdout |-> <<>>,
          error_message |-> "command timed out"]
    ELSE IF raw.kind = "no_client"
    THEN [success |-> FALSE, stdout |-> <<>>,
          error_message |-> "ssh client not found"]
    ELSE [success |-> FALSE, stdout |-> <<>>, error_message |-> raw.text]

\* DemoExecutor.execute_ssh is not called by the checker in demo mode: the
\* _run_demo_* functions answer from their own tables.

(***************************************************************************)
(* RemoteExecutor.check_http_status on the raw HTTP exchange: the status   *)
(* code received (a response or an HTTPError), 0 for any other exception.  *)
(***************************************************************************)
ExpectedHttpStatus == 200

CheckHttpStatus(code) ==
    [ok |-> (code # 0 /\ code = ExpectedHttpStatus), status_code |-> code]

\* CheckTcpPort that takes any result of connect_ex for a connection
CheckTcpPortAnyResult(rc) == rc >= 0

(***************************************************************************)
(* RemoteExecutor.check_tcp_port on the raw connect: the connect_ex result *)
(* (0 is a connection), or -1 for an exception.                            *)
(***************************************************************************)
CheckTcpPort(rc) == (rc = 0)

\* ErrorOr that drops the runner's error text
ErrorOrGenericOnly(conn, generic) == generic

\* conn_result.error_message or generic
ErrorOr(conn, generic) ==
    IF conn.error_message # "" THEN conn.error_message ELSE generic

(***************************************************************************)
(* _run_os_check, given the ConnectionResult of its execute_ssh call.      *)
(***************************************************************************)
RunOsCheck(check, conn, server_name, category, env_name) ==
    IF ~conn.success
    THEN CheckResult(check.id, check.name, category, env_name,
                     check.description, "UNKNOWN", Chars("N/A"),
                     Threshold(check), Get(check, "unit", ""),
                     Msg(ErrorOr(conn, "connection failed"), 0, 0),
                     server_name, Get(check, "severity", "medium"))
    ELSE LET value     == conn.stdout
             threshold == Threshold(check)
             ev == IF threshold # None
                   THEN EvaluateThreshold(value, threshold[1], check.id)
                   ELSE [status |-> "OK",
                         message |-> Msg("information collected", 0, 0)]
         IN  CheckResult(check.id, check.name, category, env_name,
                         check.description, ev.status, value, threshold,
                         Get(check, "unit", ""), ev.message, server_name,
                         Get(check, "severity", "medium"))

(***************************************************************************)
(* _run_k8s_check, given the ConnectionResult of its execute_ssh call.     *)
(***************************************************************************)
RunK8sCheck(check, conn, env_name) ==
    IF ~conn.success
    THEN CheckResult(check.id, check.name, "Kubernetes", env_name,
                     check.description, "UNKNOWN", Chars("N/A"),
                     Threshold(check), Get(check, "unit", ""),
                     Msg(ErrorOr(conn, "kubectl failed"), 0, 0),
                     env_name \o " Cluster",
                     Get(check, "severity", "medium"))
    ELSE LET value     == conn.stdout
             expected  == Get(check, "expected", <<>>)
             threshold == Threshold(check)
             ev == IF Len(expected) > 0
                   THEN EvaluateExpected(value, expected)
                   ELSE IF threshold # None
                   THEN EvaluateThreshold(value, threshold[1], check.id)
                   ELSE [status |-> "OK",
                         message |-> Msg("information collected", 0, 0)]
         IN  CheckResult(check.id, check.name, "Kubernetes", env_name,
                         check.description, ev.status,
                         IF Len(value) > 0 THEN Take(value, ValueLimit)
                         ELSE Chars("N/A"),
                         threshold, Get(check, "unit", ""), ev.message,
                         env_name \o " Cluster",
                         Get(check, "severity", "medium"))

\* ReplicaStatus with the comparison written <
ReplicaStatusStrict(n) == IF n < ReplicaWarnMax THEN "WARNING" ELSE "CRITICAL"

\* CheckStatus.WARNING if len(issues) <= 3 else CheckStatus.CRITICAL
ReplicaStatus(n) == IF n <= ReplicaWarnMax THEN "WARNING" ELSE "CRITICAL"

(***************************************************************************)
(* _run_svc_check, given the ConnectionResult of its execute_ssh call.     *)
(***************************************************************************)
RunSvcCheck(check, conn, env_name) ==
    IF ~conn.success
    THEN CheckResult(check.id, check.name, "Services", env_name,
                     check.description, "UNKNOWN", Chars("N/A"),
                     Threshold(check), Get(check, "unit", ""),
                     Msg(ErrorOr(conn, "check failed"), 0, 0),
                     env_name \o " Services",
                     Get(check, "severity", "medium"))
    ELSE LET out        == conn.stdout
             check_type == Get(check, "check_type", "")
             threshold  == Threshold(check)
             replica    == check_type = "replica_match"
             hasIssues  == Len(out) > 0 /\ Len(Strip(out)) > 0
             issues     == SplitLines(Strip(out))
             ev == IF replica
                   THEN IF hasIssues
                        THEN [status |-> ReplicaStatus(Len(issues)),
                              message |->
                                  Msg("mismatched resources", Len(issues), 0)]
                        ELSE [status |-> "OK",
                              message |-> Msg("all resources normal", 0, 0)]
                   ELSE IF threshold # None
                   THEN EvaluateThreshold(
                            IF Len(out) > 0 THEN out ELSE Chars("0"),
                            threshold[1], check.id)
                   ELSE [status |-> "OK",
                         message |-> Msg("information collected", 0, 0)]
             value == IF replica /\ ~hasIssues THEN Chars("all normal")
                      ELSE out
         IN  CheckResult(check.id, check.name, "Services", env_name,
                         check.description, ev.status,
                         IF Len(value) > 0 THEN Take(value, ValueLimit)
                         ELSE Chars("0"),
                         threshold, Get(check, "unit", ""), ev.message,
                         env_name \o " Services",
                         Get(check, "severity", "medium"))

(***************************************************************************)
(* Demo mode: the tables of _run_demo_os_check, _run_demo_k8s_check and    *)
(* _run_demo_svc_check, <<value, status, message>> by identifier.          *)
(***************************************************************************)
NoDemoData == <<Chars("N/A"), "UNKNOWN", "no demo data">>

DemoOsValues(id) ==
    CASE id = "OS-001" -> <<Chars("45"), "OK", "normal range">>
      [] id = "OS-002" -> <<Chars("62.5"), "OK", "normal range">>
      [] id = "OS-003" -> <<Chars("23"), "OK", "normal range">>
      [] id = "OS-004" -> <<Chars("up 15 days, 4 hours"), "OK", "running">>
      [] id = "OS-005" -> <<Chars("0"), "OK", "no zombie process">>
      [] id = "OS-006" -> <<Chars("1.25"), "OK", "normal range">>
      [] id = "OS-007" -> <<Chars("12.3"), "OK", "normal range">>
      [] id = "OS-008" -> <<Chars("3456"), "OK", "normal range">>
      [] id = "OS-009" -> <<Chars("128"), "OK", "normal range">>
      [] id = "OS-010" -> <<Chars("5.15.0-91-generic"), "OK", "kernel info">>
      [] OTHER -> NoDemoData

DemoK8sValues(id) ==
    CASE id = "K8S-001" ->
            <<Chars("master-01:Ready\nmaster-02:Ready\nmaster-03:Ready\nworker-01:Ready\nworker-02:Ready\nworker-03:Ready"),
              "OK", "all normal (6/6)">>
      [] id = "K8S-002" ->
            <<Chars("master-01:32%\nworker-01:45%\nworker-02:38%\nworker-03:52%"),
              "OK", "all nodes normal">>
      [] id = "K8S-003" ->
            <<Chars("master-01:58%\nworker-01:62%\nworker-02:55%\nworker-03:71%"),
              "OK", "all nodes normal">>
      [] id = "K8S-004" ->
            <<Chars("coredns-xxx:Running\netcd-master:Running\nkube-apiserver:Running\nkube-scheduler:Running"),
              "OK", "all system pods normal">>
      [] id = "K8S-005" ->
            <<Chars("etcd-master-01:Running\netcd-master-02:Running\netcd-master-03:Running"),
              "OK", "etcd cluster normal">>
      [] id = "K8S-006" ->
            <<Chars("pv-data-01:Bound\npv-data-02:Bound"), "OK", "all PV bound">>
      [] id = "K8S-007" ->
            <<Chars("pvc-01:Bound\npvc-02:Bound"), "OK", "all PVC bound">>
      [] id = "K8S-008" -> <<Chars("5"), "OK", "warning events in range">>
      [] id = "K8S-009" -> <<Chars("0"), "OK", "no NotReady node">>
      [] id = "K8S-010" -> <<Chars("v1.28.4"), "OK", "version info">>
      [] OTHER -> NoDemoData

DemoSvcValues(id) ==
    CASE id = "SVC-001" -> <<<<>>, "OK", "all Deployments normal">>
      [] id = "SVC-002" -> <<<<>>, "OK", "all StatefulSets normal">>
      [] id = "SVC-003" -> <<<<>>, "OK", "all DaemonSets normal">>
      [] id = "SVC-004" -> <<Chars("0"), "OK", "no Service without Endpoint">>
      [] id = "SVC-005" -> <<Chars("5"), "OK", "5 Ingress found">>
      [] id = "SVC-006" -> <<<<>>, "OK", "no restarting Pod">>
      [] id = "SVC-007" -> <<Chars("0"), "OK", "no Pending Pod">>
      [] id = "SVC-008" -> <<Chars("0"), "OK", "no Failed Pod">>
      [] id = "SVC-009" -> <<Chars("3"), "OK", "3 CronJob found">>
      [] id = "SVC-010" -> <<Chars("0"), "OK", "no Failed Job">>
      [] OTHER -> NoDemoData

\* _run_demo_os_check
RunDemoOsCheck(check, server_name, category, env_name) ==
    LET d == DemoOsValues(check.id)
    IN  CheckResult(check.id, check.name, category, env_name,
                    check.description, d[2], d[1], Threshold(check),
                    Get(check, "unit", ""), Msg(d[3], 0, 0), server_name,
                    Get(check, "severity", "medium"))

\* _run_demo_k8s_check
RunDemoK8sCheck(check, env_name) ==
    LET d == DemoK8sValues(check.id)
    IN  CheckResult(check.id, check.name, "Kubernetes", env_name,
                    check.description, d[2], d[1], Threshold(check),
                    Get(check, "unit", ""), Msg(d[3], 0, 0),
                    env_name \o " Cluster",
                    Get(check, "severity", "medium"))

\* _run_demo_svc_check
RunDemoSvcCheck(check, env_name) ==
    LET d == DemoSvcValues(check.id)
    IN  CheckResult(check.id, check.name, "Services", env_name,
                    check.description, d[2],
                    IF Len(d[1]) > 0 THEN d[1] ELSE Chars("all normal"),
                    Threshold(check), Get(check, "unit", ""),
                    Msg(d[3], 0, 0), env_name \o " Services",
                    Get(check, "severity", "medium"))

(***************************************************************************)
(* str.upper() on the ASCII letters, and the slices used for identifiers.  *)
(***************************************************************************)
LowerLetters == "abcdefghijklmnopqrstuvwxyz"

UpperLetters == "ABCDEFGHIJKLMNOPQRSTUVWXYZ"

UpperChar(c) ==
    IF \E i \in 1..Len(LowerLetters) : SubSeq(LowerLetters, i, i) = c
    THEN LET i == CHOOSE k \in 1..Len(LowerLetters) :
                      SubSeq(LowerLetters, k, k) = c
         IN  SubSeq(UpperLetters, i, i)
    ELSE c

RECURSIVE Upper(_)
Upper(s) ==
    IF Len(s) = 0 THEN ""
    ELSE UpperChar(SubSeq(s, 1, 1)) \o Upper(SubSeq(s, 2, Len(s)))

\* text[-1:]
LastChar(s) == IF Len(s) = 0 THEN "" ELSE SubSeq(s, Len(s), Len(s))

(***************************************************************************)
(* The body of the service loop of check_cicd_services, given the results  *)
(* of the probes: http is the pair returned by check_http_status; tcp is   *)
(* the result of check_tcp_port, read only when http.ok is false.          *)
(***************************************************************************)
\* Variant: the result of the TCP probe is not used
CicdVerdictHttpOnly(http, tcp, port) ==
    IF http.ok
    THEN [status |-> "OK", message |-> "service responded",
          value |-> IntToStr(http.status_code) \o Chars(" OK")]
    ELSE [status |-> "CRITICAL", message |-> "no service response",
          value |-> Chars("connection failed")]

CicdVerdict(http, tcp, port) ==
    IF http.ok
    THEN [status |-> "OK", message |-> "service responded",
          value |-> IntToStr(http.status_code) \o Chars(" OK")]
    ELSE IF tcp
    THEN [status |-> "OK", message |-> "port responded",
          value |-> Chars("TCP ") \o IntToStr(port) \o Chars(" Open")]
    ELSE [status |-> "CRITICAL", message |-> "no service response",
          value |-> Chars("connection failed")]

CheckCicdService(key, server, service, demo, http, tcp) ==
    LET server_name == Get(server, "name", key)
        svc_name    == Get(service, "name", "")
        port        == Get(service, "port", 80)
        v == IF demo
             THEN [status |-> "OK", message |-> "service responded",
                   value |-> Chars("200 OK")]
             ELSE CicdVerdict(http, tcp, port)
    IN  CheckResult("CICD-" \o Take(Upper(key), 3), svc_name \o " service",
                    "CI/CD", "CI/CD infra",
                    server_name \o " " \o svc_name \o " service status",
                    v.status, v.value, None, "", Msg(v.message, 0, 0),
                    server_name, "critical")

\* The port probed for a database service
DbPort(service) == Get(service, "port", 3306)

(***************************************************************************)
(* The body of the service loop of check_databases, given the result of    *)
(* check_tcp_port (not called in demo mode).                               *)
(***************************************************************************)
DbVerdict(tcp, port) ==
    IF tcp
    THEN [status |-> "OK", message |-> "DB connection normal",
          value |-> Chars("TCP ") \o IntToStr(port) \o Chars(" Open")]
    ELSE [status |-> "CRITICAL", message |-> "DB connection failed",
          value |-> Chars("cannot connect")]

CheckDatabase(env_name, db, service, demo, tcp) ==
    LET db_name  == Get(db, "name", "")
        svc_name == Get(service, "name", "MySQL")
        port     == DbPort(service)
        v == IF demo THEN DbVerdict(TRUE, port) ELSE DbVerdict(tcp, port)
    IN  CheckResult("DB-" \o Take(env_name, 1) \o LastChar(db_name),
                    svc_name \o " connection", "Database", env_name,
                    db_name \o " " \o svc_name \o " port check",
                    v.status, v.value, None, "", Msg(v.message, 0, 0),
                    env_name \o " " \o db_name, "critical")

(***************************************************************************)
(* Evaluation harness: the evaluation functions applied to inputs drawn    *)
(* from bounded sets.  fn holds the function name and its arguments, ret   *)
(* is <<>> before the call and <<result>> after it.                        *)
(***************************************************************************)
RECURSIVE JoinLines(_)
JoinLines(ls) ==
    IF Len(ls) = 0 THEN <<>>
    ELSE IF Len(ls) = 1 THEN ls[1]
    ELSE ls[1] \o <<"\n">> \o JoinLines(Tail(ls))

Repeat(x, n) == [i \in 1..n |-> x]

\* Sequences over S of length 1..n
SeqsUpTo(S, n) == UNION {[1..k -> S] : k \in 1..n}

Numerals == {IntToStr(n) : n \in 0..MaxValue}

\* Outputs handed to _evaluate_threshold: numerals, decorated numerals,
\* decimals, and texts float() rejects
ThresholdValues ==
    Numerals
    \cup {IntToStr(n) \o <<"%">> : n \in {0, 45, 64, 80}}
    \cup {<<" ">> \o IntToStr(n) \o <<"\n">> : n \in {0, 3, 65}}
    \cup {Chars("62.5"), Chars("2.5"), Chars("3.01"), Chars("0.0"),
          Chars("-1"), Chars("+4"), Chars("4%5")}
    \cup {<<>>, Chars("abc"), Chars("N/A"), Chars("1 2"), Chars("4\n5"),
          Chars("1.2.3"), Chars("up 15 days"), Chars("-"), Chars("%")}

Thresholds == (0..MaxThreshold) \cup {80, 100}

ThresholdIds == zero_is_ok \cup {"OS-001", "K8S-002", "SVC-005"}

ThresholdCalls ==
    [name : {"_evaluate_threshold"}, value : ThresholdValues,
     threshold : Thresholds, check_id : ThresholdIds]

\* Records of an output: matching, not matching, blank
RecordPool ==
    {Chars("a:Ready"), Chars(" b:Ready "), Chars("c:Down"), <<>>, Chars("  ")}

ExpectedOutputs ==
    {JoinLines(ls) : ls \in SeqsUpTo(RecordPool, MaxLines)}
    \cup {JoinLines(Repeat(Chars("a:Ready"), k) \o
                    Repeat(Chars("c:Down"), 10 - k)) : k \in 6..8}
    \cup {<<>>, Chars("N/A"), Chars("\n"), Chars("N/A\na:Ready")}

ExpectedCalls ==
    [name : {"_evaluate_expected"}, output : ExpectedOutputs,
     expected : {Chars("Ready")}]

\* Check definitions: the required fields, and every combination of the
\* optional threshold, expected and check_type fields
BaseCheck(id) ==
    [id |-> id, name |-> "check " \o id, description |-> "about " \o id,
     command |-> "cmd " \o id]

CheckPool ==
    {BaseCheck(id) @@ t @@ e @@ c :
        id \in {"OS-001", "OS-005", "K8S-001", "SVC-001", "SVC-004"},
        t \in {<<>>, [threshold |-> 80, unit |-> "%"], [threshold |-> 0],
               [threshold |-> 3, severity |-> "critical"]},
        e \in {<<>>, [expected |-> Chars("Ready")]},
        c \in {<<>>, [check_type |-> "replica_match"]}}

LongOutput(n) == Repeat("x", n)

\* Raw results of the ssh subprocess
RawPool ==
    {[kind |-> "exit", rc |-> 0, out |-> o] :
        o \in {<<>>, Chars("0"), Chars("45"), Chars("64"), Chars("85"),
               Chars("2"), Chars("7"), Chars("abc"), Chars(" \n"),
               Chars("a:Ready\nb:Ready\nc:Down\n"), Chars("a:Ready\nb:Ready"),
               Chars("x\ny\nz"), Chars("w\nx\ny\nz"), Chars("w\n\ny\nz"),
               LongOutput(ValueLimit), LongOutput(ValueLimit + 1)}}
    \cup {[kind |-> "exit", rc |-> 1, out |-> o] :
             o \in {<<>>, Chars("45"), Chars("a:Ready")}}
    \cup {[kind |-> "timeout"], [kind |-> "no_client"],
          [kind |-> "error", text |-> "connection refused"],
          [kind |-> "error", text |-> ""]}

RunCheckNames == {"_run_os_check", "_run_k8s_check", "_run_svc_check"}

RunCheckCalls ==
    [name : RunCheckNames, check : CheckPool, raw : RawPool]

InitEval ==
    /\ inventory = <<>>
    /\ checks_config = <<>>
    /\ demo_mode = FALSE
    /\ results = <<>>
    /\ local = <<>>
    /\ pc = "idle"
    /\ call = 0
    /\ item = 0
    /\ log = <<>>
    /\ deviations = 0
    /\ fn \in ThresholdCalls \cup ExpectedCalls \cup RunCheckCalls
    /\ ret = <<>>
    /\ config_exists = [inventory |-> TRUE, checks |-> TRUE]
    /\ args = [json |-> FALSE, quiet |-> FALSE]
    /\ exit_code = <<>>
    /\ summary = <<>>

CallEvaluateThreshold ==
    /\ ret = <<>>
    /\ fn.name = "_evaluate_threshold"
    /\ ret' = <<EvaluateThreshold(fn.value, fn.threshold, fn.check_id)>>
    /\ UNCHANGED <<runVars, fn, mainVars>>

CallEvaluateExpected ==
    /\ ret = <<>>
    /\ fn.name = "_evaluate_expected"
    /\ ret' = <<EvaluateExpected(fn.output, fn.expected)>>
    /\ UNCHANGED <<runVars, fn, mainVars>>

CallRunOsCheck ==
    /\ ret = <<>>
    /\ fn.name = "_run_os_check"
    /\ ret' = <<RunOsCheck(fn.check, ExecuteSsh(fn.raw), "dev-master-01",
                            "DEV Master", "DEV")>>
    /\ UNCHANGED <<runVars, fn, mainVars>>

CallRunK8sCheck ==
    /\ ret = <<>>
    /\ fn.name = "_run_k8s_check"
    /\ ret' = <<RunK8sCheck(fn.check, ExecuteSsh(fn.raw), "DEV")>>
    /\ UNCHANGED <<runVars, fn, mainVars>>

CallRunSvcCheck ==
    /\ ret = <<>>
    /\ fn.name = "_run_svc_check"
    /\ ret' = <<RunSvcCheck(fn.check, ExecuteSsh(fn.raw), "DEV")>>
    /\ UNCHANGED <<runVars, fn, mainVars>>

NextEval ==
    \/ CallEvaluateThreshold
    \/ CallEvaluateExpected
    \/ CallRunOsCheck
    \/ CallRunK8sCheck
    \/ CallRunSvcCheck

SpecEval == InitEval /\ [][NextEval]_vars

(***************************************************************************)
(* Properties of the evaluation engine, checked under SpecEval.            *)
(***************************************************************************)
Returned(names) == ret # <<>> /\ fn.name \in names

\* The ssh subprocess did not end with return code 0
RunnerFailed(raw) == raw.kind # "exit" \/ raw.rc # 0

GenericFailure(name) ==
    CASE name = "_run_os_check" -> "connection failed"
      [] name = "_run_k8s_check" -> "kubectl failed"
      [] name = "_run_svc_check" -> "check failed"

\* C1: whenever the remote runner reports failure, for the host, cluster and
\* workload check alike and whatever policy the definition declares, the one
\* outcome produced is UNKNOWN with value "N/A", and its message is the
\* runner's error text if that is non-empty and the generic failure message
\* otherwise.
C1_TransportFailureIsUnknown ==
    (Returned(RunCheckNames) /\ RunnerFailed(fn.raw)) =>
        LET err == ExecuteSsh(fn.raw).error_message
        IN  /\ Len(ret) = 1
            /\ ret[1].status = "UNKNOWN"
            /\ ret[1].value = Chars("N/A")
            /\ ret[1].message =
                   Msg(IF err # "" THEN err ELSE GenericFailure(fn.name), 0, 0)

C1_Witness ==
    /\ Returned({"_run_svc_check"})
    /\ fn.raw = [kind |-> "exit", rc |-> 1, out |-> Chars("45")]
    /\ Get(fn.check, "check_type", "") = "replica_match"
    /\ "threshold" \in DOMAIN fn.check
    /\ ret[1].status = "UNKNOWN"
    /\ ret[1].message.text = "check failed"

\* The number float() reads from the value, in hundredths
Parsed(value) == ParseFloat(Remove(value, "%"))

ThresholdCase(value, threshold, check_id) ==
    /\ Returned({"_evaluate_threshold"})
    /\ fn.value = Chars(value)
    /\ fn.threshold = threshold
    /\ fn.check_id = check_id

ZeroIsHealthyIds ==
    {"OS-005", "K8S-008", "K8S-009", "SVC-004", "SVC-006", "SVC-007",
     "SVC-008", "SVC-010"}

ZeroPolicyTexts == {"normal", "needs attention", "immediate action needed"}

\* C3: for each of the eight identifiers of the allow-list and a value that
\* parses, _evaluate_threshold returns OK when the value is 0, WARNING when
\* 0 < value <= 3 and CRITICAL when value > 3, whatever the threshold; for an
\* identifier outside the list the zero-is-healthy policy is never applied.
C3_ZeroIsHealthy ==
    (Returned({"_evaluate_threshold"}) /\ Parsed(fn.value).ok) =>
        LET v == Parsed(fn.value).val
        IN  IF fn.check_id \in ZeroIsHealthyIds
            THEN /\ v = 0 => ret[1].status = "OK"
                 /\ (0 < v /\ v <= 3 * Scale) => ret[1].status = "WARNING"
                 /\ v > 3 * Scale => ret[1].status = "CRITICAL"
                 /\ ret[1].message.text \in ZeroPolicyTexts
            ELSE ret[1].message.text \notin ZeroPolicyTexts

C3_Witness ==
    /\ ThresholdCase("3", 100, "K8S-008")
    /\ ret[1].status = "WARNING"
    /\ ret[1].message = Msg("needs attention", 3 * Scale, 0)

\* N and K of an output: its non-empty records, and those holding expected
NonEmptyRecords(output) == Len(RecordLines(output))

MatchingRecords(output, expected) == OkCount(RecordLines(output), expected)

Blank(output) == \A i \in 1..Len(output) : IsSpace(output[i])

\* C5: expected-pattern evaluation returns UNKNOWN exactly when the output is
\* empty, is the text "N/A", or has no non-empty line.
C5_ExpectedUnknown ==
    Returned({"_evaluate_expected"}) =>
        (ret[1].status = "UNKNOWN" <=>
            (Len(fn.output) = 0 \/ fn.output = Chars("N/A")
                \/ Blank(fn.output)))

C5_Witness ==
    /\ Returned({"_evaluate_expected"})
    /\ fn.output = Chars("\n")
    /\ ret[1] = [status |-> "UNKNOWN", message |-> Msg("no targets", 0, 0)]

\* C6: in every category run over the remote runner, a successful output of
\* a definition that carries an expected substring is classified by the
\* expected-pattern evaluation, also when the definition has a threshold.
C6_ExpectedOverridesEverywhere ==
    (Returned(RunCheckNames) /\ ~RunnerFailed(fn.raw)
        /\ "expected" \in DOMAIN fn.check) =>
        LET ev == EvaluateExpected(Strip(fn.raw.out), fn.check.expected)
        IN  ret[1].status = ev.status /\ ret[1].message = ev.message

\* Lines of a stripped output: one more than its line breaks
LineCount(out) == 1 + Cardinality({i \in 1..Len(out) : out[i] = "\n"})

\* C7: a successful replica_match workload check is OK, with the value
\* replaced by the fixed "all normal" text, when the output is empty or
\* whitespace only; otherwise it is WARNING for up to 3 lines and CRITICAL
\* for more, the message giving the line count; a threshold on the same
\* definition changes nothing.
C7_ReplicaMismatch ==
    (Returned({"_run_svc_check"}) /\ ~RunnerFailed(fn.raw)
        /\ Get(fn.check, "check_type", "") = "replica_match") =>
        LET out == Strip(fn.raw.out)
            r   == ret[1]
        IN  IF Blank(fn.raw.out)
            THEN r.status = "OK" /\ r.value = Chars("all normal")
            ELSE /\ r.status =
                        IF LineCount(out) <= 3 THEN "WARNING" ELSE "CRITICAL"
                 /\ r.message = Msg("mismatched resources", LineCount(out), 0)

C7_Witness ==
    /\ Returned({"_run_svc_check"})
    /\ fn.raw = [kind |-> "exit", rc |-> 0, out |-> Chars("w\nx\ny\nz")]
    /\ Get(fn.check, "check_type", "") = "replica_match"
    /\ "threshold" \in DOMAIN fn.check
    /\ ret[1].status = "CRITICAL"
    /\ ret[1].message.a = 4

(***************************************************************************)
(* run_all_checks.  The inventory is a record with the optional keys       *)
(* cicd_servers (the mapping, as its sequence of [key, server] in file     *)
(* order), dev_cluster, stg_cluster and prd_cluster; a cluster is a record *)
(* with the optional keys env, masters, workers and databases.  The        *)
(* catalog is a record with the optional keys os_checks,                   *)
(* k8s_cluster_checks and k8s_service_checks.                              *)
(***************************************************************************)
\* get_cluster_info that answers with the staging cluster for a missing key
get_cluster_info_or_staging(cluster_key) ==
    Get(inventory, cluster_key, Get(inventory, "stg_cluster", <<>>))

\* RemoteExecutor.get_cluster_info
get_cluster_info(cluster_key) == Get(inventory, cluster_key, <<>>)

\* RemoteExecutor.get_cicd_servers
get_cicd_servers == Get(inventory, "cicd_servers", <<>>)

\* Truth value of a dict or list: not empty
Truthy(d) == DOMAIN d # {}

\* cluster.get('env', cluster_key.upper())
EnvName(cluster, cluster_key) == Get(cluster, "env", Upper(cluster_key))

RECURSIVE Flatten(_)
Flatten(ss) == IF Len(ss) = 0 THEN <<>> ELSE Head(ss) \o Flatten(Tail(ss))

\* list.extend
Extend(list, more) == list \o more

\* The four calls made for one environment, inside `if <cluster>:`
EnvCalls(cluster_key, tag) ==
    <<[fn |-> "check_os", key |-> cluster_key, tag |-> tag],
      [fn |-> "check_k8s_cluster", key |-> cluster_key, tag |-> tag],
      [fn |-> "check_k8s_services", key |-> cluster_key, tag |-> tag],
      [fn |-> "check_databases", key |-> cluster_key, tag |-> tag]>>

\* RunOrder with the staging block written before the development block
RunOrderStagingFirst ==
    <<[fn |-> "check_cicd_services", key |-> "cicd_servers", tag |-> ""]>>
    \o EnvCalls("stg_cluster", "STG")
    \o EnvCalls("dev_cluster", "DEV")
    \o EnvCalls("prd_cluster", "PRD")

\* The check_* calls of run_all_checks, in the order of its statements
RunOrder ==
    <<[fn |-> "check_cicd_services", key |-> "cicd_servers", tag |-> ""]>>
    \o EnvCalls("dev_cluster", "DEV")
    \o EnvCalls("stg_cluster", "STG")
    \o EnvCalls("prd_cluster", "PRD")

\* dev_servers: every master, then every worker, with the category set
OsServers(cluster, tag) ==
    LET masters == Get(cluster, "masters", <<>>)
        workers == Get(cluster, "workers", <<>>)
    IN  [i \in 1..Len(masters) |->
            [category |-> tag \o " Master"] @@ masters[i]]
        \o [i \in 1..Len(workers) |->
            [category |-> tag \o " Worker"] @@ workers[i]]

\* The iterations of the loops of one check_* call, in order
CicdItems ==
    LET servers == get_cicd_servers
    IN  Flatten([i \in 1..Len(servers) |->
            LET services == Get(servers[i].server, "services", <<>>)
            IN  [j \in 1..Len(services) |->
                    [key |-> servers[i].key, server |-> servers[i].server,
                     service |-> services[j]]]])

OsItems(cluster, tag) ==
    LET servers   == OsServers(cluster, tag)
        os_checks == Get(checks_config, "os_checks", <<>>)
    IN  Flatten([i \in 1..Len(servers) |->
            [j \in 1..Len(os_checks) |->
                [server |-> servers[i], check |-> os_checks[j]]]])

\* Variant: the checks run on the last master
MasterItemsLastMaster(cluster, section) ==
    LET masters == Get(cluster, "masters", <<>>)
        checks  == Get(checks_config, section, <<>>)
    IN  IF ~Truthy(masters) THEN <<>>
        ELSE [j \in 1..Len(checks) |->
                 [master |-> masters[Len(masters)], check |-> checks[j]]]

\* Variant: the checks run on every master
MasterItemsEveryMaster(cluster, section) ==
    LET masters == Get(cluster, "masters", <<>>)
        checks  == Get(checks_config, section, <<>>)
    IN  Flatten([i \in 1..Len(masters) |->
            [j \in 1..Len(checks) |->
                [master |-> masters[i], check |-> checks[j]]]])

MasterItems(cluster, section) ==
    LET masters == Get(cluster, "masters", <<>>)
        checks  == Get(checks_config, section, <<>>)
    IN  IF ~Truthy(masters) THEN <<>>
        ELSE [j \in 1..Len(checks) |->
                 [master |-> masters[1], check |-> checks[j]]]

DbItems(cluster) ==
    LET databases == Get(cluster, "databases", <<>>)
    IN  Flatten([i \in 1..Len(databases) |->
            LET services == Get(databases[i], "services", <<>>)
            IN  [j \in 1..Len(services) |->
                    [db |-> databases[i], service |-> services[j]]]])

WorkItems(c) ==
    LET r       == RunOrder[c]
        cluster == get_cluster_info(r.key)
    IN  IF r.fn = "check_cicd_services" THEN CicdItems
        ELSE IF ~Truthy(cluster) THEN <<>>
        ELSE IF r.fn = "check_os" THEN OsItems(cluster, r.tag)
        ELSE IF r.fn = "check_k8s_cluster"
        THEN MasterItems(cluster, "k8s_cluster_checks")
        ELSE IF r.fn = "check_k8s_services"
        THEN MasterItems(cluster, "k8s_service_checks")
        ELSE DbItems(cluster)

\* The first call at or after c that has an iteration to run
RECURSIVE Seek(_)
Seek(c) ==
    IF c > Len(RunOrder) THEN c
    ELSE IF Len(WorkItems(c)) > 0 THEN c
    ELSE Seek(c + 1)

(***************************************************************************)
(* Results the runner can give.  The nominal ones cost nothing; each       *)
(* iteration that receives another one counts as a deviation, and a run    *)
(* has at most MaxDeviations of them.                                      *)
(***************************************************************************)
NominalSsh == [kind |-> "exit", rc |-> 0, out |-> Chars("0\n")]

SshResults ==
    {NominalSsh,
     [kind |-> "exit", rc |-> 0, out |-> <<>>],
     [kind |-> "exit", rc |-> 0, out |-> Chars("85")],
     [kind |-> "exit", rc |-> 0, out |-> Chars("a:Ready\nb:Down\n")],
     [kind |-> "exit", rc |-> 0, out |-> LongOutput(ValueLimit + 1)],
     [kind |-> "exit", rc |-> 1, out |-> Chars("45")],
     [kind |-> "timeout"]}

\* Status codes of the HTTP exchange; 0 stands for no exchange
HttpCodes == {200, 404, 0}

\* Results of connect_ex; -1 stands for an exception
TcpCodes == {0, 111, -1}

LogEntry(op, ip, port, command, raw) ==
    [op |-> op, ip |-> ip, port |-> port, command |-> command, raw |-> raw,
     call |-> call, item |-> item]

\* The outcome with the call and iteration that produced it (history)
Tagged(o) ==
    o @@ [origin |-> [call |-> call, item |-> item,
                      fn |-> RunOrder[call].fn, key |-> RunOrder[call].key]]

(***************************************************************************)
(* One iteration appends its outcome to the list local to the check_*      *)
(* call; after the last iteration the call returns, run_all_checks extends *)
(* self.results with the list and goes on to the next call.                *)
(***************************************************************************)
\* Variant: the runner calls of an iteration are made a second time when
\* its outcome is UNKNOWN
EmitAfterRetry(o, entries, dev) ==
    /\ deviations + dev <= MaxDeviations
    /\ deviations' = deviations + dev
    /\ log' = log \o entries
                  \o (IF o.status = "UNKNOWN" THEN entries ELSE <<>>)
    /\ IF item < Len(WorkItems(call))
       THEN /\ local' = Append(local, Tagged(o))
            /\ item' = item + 1
            /\ UNCHANGED <<results, call, pc>>
       ELSE /\ results' = Extend(results, Append(local, Tagged(o)))
            /\ local' = <<>>
            /\ call' = Seek(call + 1)
            /\ item' = 1
            /\ pc' = IF Seek(call + 1) > Len(RunOrder)
                     THEN "done" ELSE "running"
    /\ UNCHANGED <<inventory, checks_config, demo_mode, fn, ret, mainVars>>

\* Variant: an UNKNOWN outcome ends the check_* call in progress
EmitReturnOnUnknown(o, entries, dev) ==
    /\ deviations + dev <= MaxDeviations
    /\ deviations' = deviations + dev
    /\ log' = log \o entries
    /\ IF item < Len(WorkItems(call)) /\ o.status # "UNKNOWN"
       THEN /\ local' = Append(local, Tagged(o))
            /\ item' = item + 1
            /\ UNCHANGED <<results, call, pc>>
       ELSE /\ results' = Extend(results, Append(local, Tagged(o)))
            /\ local' = <<>>
            /\ call' = Seek(call + 1)
            /\ item' = 1
            /\ pc' = IF Seek(call + 1) > Len(RunOrder)
                     THEN "done" ELSE "running"
    /\ UNCHANGED <<inventory, checks_config, demo_mode, fn, ret, mainVars>>

Emit(o, entries, dev) ==
    /\ deviations + dev <= MaxDeviations
    /\ deviations' = deviations + dev
    /\ log' = log \o entries
    /\ IF item < Len(WorkItems(call))
       THEN /\ local' = Append(local, Tagged(o))
            /\ item' = item + 1
            /\ UNCHANGED <<results, call, pc>>
       ELSE /\ results' = Extend(results, Append(local, Tagged(o)))
            /\ local' = <<>>
            /\ call' = Seek(call + 1)
            /\ item' = 1
            /\ pc' = IF Seek(call + 1) > Len(RunOrder)
                     THEN "done" ELSE "running"
    /\ UNCHANGED <<inventory, checks_config, demo_mode, fn, ret, mainVars>>

AtCall(name) == pc = "running" /\ RunOrder[call].fn = name

\* check['id'], check['name'], check['description'] and, outside demo mode,
\* check['command']: the keys a runner subscripts
RunnerKeys ==
    IF demo_mode THEN {"id", "name", "description"}
    ELSE {"id", "name", "description", "command"}

\* run_all_checks, up to its first check
RunAllChecks ==
    /\ pc \in {"idle", "done"}
    /\ results' = <<>>
    /\ local' = <<>>
    /\ log' = <<>>
    /\ deviations' = 0
    /\ call' = Seek(1)
    /\ item' = 1
    /\ pc' = IF Seek(1) > Len(RunOrder) THEN "done" ELSE "running"
    /\ UNCHANGED <<inventory, checks_config, demo_mode, fn, ret, mainVars>>

\* check_cicd_services: one service of one server
CheckCicdServicesStep ==
    /\ AtCall("check_cicd_services")
    /\ LET it   == WorkItems(call)[item]
           ip   == Get(it.server, "ip", "")
           port == Get(it.service, "port", 80)
       IN  IF demo_mode
           THEN Emit(CheckCicdService(it.key, it.server, it.service, TRUE,
                                      CheckHttpStatus(0), FALSE), <<>>, 0)
           ELSE \E code \in HttpCodes, rc \in TcpCodes :
                   LET http   == CheckHttpStatus(code)
                       probes ==
                           IF http.ok
                           THEN <<LogEntry("http", ip, port, "", code)>>
                           ELSE <<LogEntry("http", ip, port, "", code),
                                  LogEntry("tcp", ip, port, "", rc)>>
                   IN  /\ http.ok => rc = 0
                       /\ Emit(CheckCicdService(it.key, it.server,
                                   it.service, FALSE, http,
                                   CheckTcpPort(rc)),
                               probes, IF http.ok THEN 0 ELSE 1)

\* check_os: one check of one server
CheckOsStep ==
    /\ AtCall("check_os")
    /\ RunnerKeys \subseteq DOMAIN WorkItems(call)[item].check
    /\ LET it          == WorkItems(call)[item]
           hostname    == Get(it.server, "hostname", "")
           ip          == Get(it.server, "ip", "")
           port        == Get(it.server, "port", 22)
           server_name == Get(it.server, "name", hostname)
           category    == Get(it.server, "category", "OS")
           env_name    == RunOrder[call].tag
       IN  IF demo_mode
           THEN Emit(RunDemoOsCheck(it.check, server_name, category,
                                    env_name), <<>>, 0)
           ELSE \E raw \in SshResults :
                   Emit(RunOsCheck(it.check, ExecuteSsh(raw), server_name,
                                   category, env_name),
                        <<LogEntry("ssh", ip, port, it.check.command, raw)>>,
                        IF raw = NominalSsh THEN 0 ELSE 1)

\* check_k8s_cluster: one check, on the first master
CheckK8sClusterStep ==
    /\ AtCall("check_k8s_cluster")
    /\ RunnerKeys \subseteq DOMAIN WorkItems(call)[item].check
    /\ LET it       == WorkItems(call)[item]
           key      == RunOrder[call].key
           env_name == EnvName(get_cluster_info(key), key)
           ip       == Get(it.master, "ip", "")
           port     == Get(it.master, "ssh_port", 22)
       IN  IF demo_mode
           THEN Emit(RunDemoK8sCheck(it.check, env_name), <<>>, 0)
           ELSE \E raw \in SshResults :
                   Emit(RunK8sCheck(it.check, ExecuteSsh(raw), env_name),
                        <<LogEntry("ssh", ip, port, it.check.command, raw)>>,
                        IF raw = NominalSsh THEN 0 ELSE 1)

\* check_k8s_services: one check, on the first master
CheckK8sServicesStep ==
    /\ AtCall("check_k8s_services")
    /\ RunnerKeys \subseteq DOMAIN WorkItems(call)[item].check
    /\ LET it       == WorkItems(call)[item]
           key      == RunOrder[call].key
           env_name == EnvName(get_cluster_info(key), key)
           ip       == Get(it.master, "ip", "")
           port     == Get(it.master, "ssh_port", 22)
       IN  IF demo_mode
           THEN Emit(RunDemoSvcCheck(it.check, env_name), <<>>, 0)
           ELSE \E raw \in SshResults :
                   Emit(RunSvcCheck(it.check, ExecuteSsh(raw), env_name),
                        <<LogEntry("ssh", ip, port, it.check.command, raw)>>,
                        IF raw = NominalSsh THEN 0 ELSE 1)

\* check_databases: one service of one database
CheckDatabasesStep ==
    /\ AtCall("check_databases")
    /\ LET it       == WorkItems(call)[item]
           key      == RunOrder[call].key
           env_name == EnvName(get_cluster_info(key), key)
           ip       == Get(it.db, "ip", "")
           port     == DbPort(it.service)
       IN  IF demo_mode
           THEN Emit(CheckDatabase(env_name, it.db, it.service, TRUE, TRUE),
                     <<>>, 0)
           ELSE \E rc \in TcpCodes :
                   Emit(CheckDatabase(env_name, it.db, it.service, FALSE,
                                      CheckTcpPort(rc)),
                        <<LogEntry("tcp", ip, port, "", rc)>>,
                        IF rc = 0 THEN 0 ELSE 1)

(***************************************************************************)
(* Inventories and catalogs the checker is constructed with.               *)
(***************************************************************************)
Node(name, ip) == [name |-> name, hostname |-> name, ip |-> ip]

Database(name, ip, services) ==
    [name |-> name, hostname |-> name, ip |-> ip, services |-> services]

FullInventory ==
    [cicd_servers |->
        <<[key |-> "jenkins",
           server |-> [name |-> "Jenkins", hostname |-> "ci-01",
                       ip |-> "10.0.0.10",
                       services |-> <<[name |-> "Jenkins", port |-> 8080]>>]],
          [key |-> "gitlab",
           server |-> [hostname |-> "ci-02", ip |-> "10.0.0.11",
                       services |-> <<[name |-> "GitLab"]>>]]>>,
     dev_cluster |->
        [env |-> "DEV",
         masters |-> <<Node("dev-master-01", "10.1.0.1")>>,
         workers |-> <<Node("dev-worker-01", "10.1.0.2")>>,
         databases |->
             <<Database("dev-db-01", "10.1.0.9",
                        <<[name |-> "MySQL", port |-> 3306]>>)>>],
     stg_cluster |->
        [env |-> "STG",
         masters |-> <<Node("stg-master-01", "10.2.0.1")>>,
         databases |-> <<Database("stg-db-01", "10.2.0.9", <<[port |-> 5432]>>)>>],
     prd_cluster |->
        [env |-> "PRD",
         masters |-> <<Node("prd-master-01", "10.3.0.1"),
                       Node("prd-master-02", "10.3.0.2")>>,
         databases |-> <<>>]]

\* No CI/CD server, no development cluster, a staging cluster without
\* control-plane node, a production cluster without env label
PartialInventory ==
    [stg_cluster |->
        [env |-> "STG",
         workers |-> <<Node("stg-worker-01", "10.2.0.2")>>,
         databases |->
             <<Database("stg-db-01", "10.2.0.9",
                        <<[name |-> "MySQL", port |-> 3306],
                          [name |-> "Redis", port |-> 6379]>>)>>],
     prd_cluster |->
        [masters |-> <<Node("prd-master-01", "10.3.0.1")>>]]

\* CI/CD only: the development cluster key is present and empty
CicdInventory ==
    [cicd_servers |->
        <<[key |-> "nexus",
           server |-> [name |-> "Nexus", hostname |-> "ci-03",
                       ip |-> "10.0.0.12",
                       services |-> <<[name |-> "Nexus", port |-> 8081],
                                      [name |-> "Registry", port |-> 5000]>>]]>>,
     dev_cluster |-> <<>>]

EmptyInventory == <<>>

Inventories ==
    {FullInventory, PartialInventory, CicdInventory, EmptyInventory}

Check(id, command) ==
    [id |-> id, name |-> "check " \o id, description |-> "about " \o id,
     command |-> command]

Catalog ==
    [os_checks |->
        <<Check("OS-001", "df -h /") @@ [threshold |-> 80, unit |-> "%"]>>,
     k8s_cluster_checks |->
        <<Check("K8S-001", "kubectl get nodes") @@
              [expected |-> Chars("Ready"), severity |-> "critical"],
          Check("K8S-010", "kubectl version")>>,
     k8s_service_checks |->
        <<Check("SVC-001", "kubectl get deploy") @@
              [check_type |-> "replica_match"],
          Check("SVC-007", "kubectl get pods") @@
              [threshold |-> 0, unit |-> "ea"]>>]

\* A catalog file without the workload section
HostCatalog ==
    [os_checks |->
        <<Check("OS-005", "ps aux") @@ [threshold |-> 0],
          Check("OS-004", "uptime")>>,
     k8s_cluster_checks |->
        <<Check("K8S-002", "kubectl top nodes") @@
              [threshold |-> 80, expected |-> Chars("Ready")]>>]

\* A catalog with one host check that is not among the built-in identifiers
\* and has no evaluation policy
CustomCatalog == [os_checks |-> <<Check("OS-011", "cat /etc/os-release")>>]

Catalogs == {Catalog, HostCatalog, CustomCatalog}

Init ==
    /\ inventory \in Inventories
    /\ checks_config \in Catalogs
    /\ demo_mode \in BOOLEAN
    /\ results = <<>>
    /\ local = <<>>
    /\ pc = "idle"
    /\ call = 0
    /\ item = 0
    /\ log = <<>>
    /\ deviations = 0
    /\ fn = <<>>
    /\ ret = <<>>
    /\ config_exists = [inventory |-> TRUE, checks |-> TRUE]
    /\ args = [json |-> FALSE, quiet |-> FALSE]
    /\ exit_code = <<>>
    /\ summary = <<>>

Next ==
    \/ RunAllChecks
    \/ CheckCicdServicesStep
    \/ CheckOsStep
    \/ CheckK8sClusterStep
    \/ CheckK8sServicesStep
    \/ CheckDatabasesStep

Spec == Init /\ [][Next]_vars

\* The loop of the check_* call in progress goes on to its next iteration,
\* or the call returns and run_all_checks goes on to its next call
Advance ==
    /\ pc = "running"
    /\ IF item < Len(WorkItems(call))
       THEN /\ item' = item + 1
            /\ call' = call
       ELSE /\ item' = 1
            /\ call' = Seek(call + 1)

\* Every iteration ends: each runner call returns, with a result or with
\* an exception that execute_ssh, check_tcp_port and check_http_status turn
\* into a result, the timeouts bounding a command or a probe that hangs
FairSpec == Spec /\ WF_<<call, item>>(Advance)

(***************************************************************************)
(* Properties of a run, checked under Spec.                                *)
(***************************************************************************)
\* Every outcome produced so far, in the order of production
Produced == results \o local

\* The runner calls made for the iteration that produced outcome o
CallsFor(o, op) ==
    {k \in 1..Len(log) :
        /\ log[k].op = op
        /\ log[k].call = o.origin.call
        /\ log[k].item = o.origin.item}

TcpOpenValue(port) == Chars("TCP ") \o IntToStr(port) \o Chars(" Open")

\* C8: every CI/CD and database outcome is OK or CRITICAL, has no threshold
\* and severity "critical"; a database outcome is OK with value
\* "TCP <port> Open" exactly when the TCP probe of its port connected, and is
\* CRITICAL with the connection-failure value otherwise (demo mode makes no
\* probe and reports the port open).
C8_FixedOutcome ==
    \A k \in 1..Len(Produced) :
        LET o == Produced[k]
        IN  o.category \in {"CI/CD", "Database"} =>
                /\ o.status \in {"OK", "CRITICAL"}
                /\ o.threshold = None
                /\ o.severity = "critical"
                /\ o.category = "Database" =>
                       LET port == DbPort(WorkItems(o.origin.call)
                                              [o.origin.item].service)
                           open == /\ o.status = "OK"
                                   /\ o.value = TcpOpenValue(port)
                       IN  IF demo_mode
                           THEN open /\ CallsFor(o, "tcp") = {}
                           ELSE /\ Cardinality(CallsFor(o, "tcp")) = 1
                                /\ \A e \in CallsFor(o, "tcp") :
                                       /\ log[e].port = port
                                       /\ open <=> log[e].raw = 0
                                       /\ log[e].raw # 0 =>
                                              /\ o.status = "CRITICAL"
                                              /\ o.value =
                                                     Chars("cannot connect")

C8_Witness ==
    /\ ~demo_mode
    /\ \E k \in 1..Len(results) :
           /\ results[k].category = "Database"
           /\ results[k].status = "CRITICAL"
    /\ \E k \in 1..Len(results) :
           /\ results[k].category = "CI/CD"
           /\ results[k].status = "OK"

\* Outcomes of the checks run over ssh
IsHost(o) == o.origin.fn = "check_os"

IsClusterOrWorkload(o) == o.category \in {"Kubernetes", "Services"}

\* What was measured for o: the stripped output of its ssh command, or in
\* demo mode the value of the demo table
Measured(o) ==
    IF demo_mode
    THEN IF IsHost(o) THEN DemoOsValues(o.check_id)[1]
         ELSE IF o.category = "Kubernetes" THEN DemoK8sValues(o.check_id)[1]
         ELSE DemoSvcValues(o.check_id)[1]
    ELSE LET e == CHOOSE k \in CallsFor(o, "ssh") : TRUE
         IN  IF log[e].raw.kind = "exit" THEN Strip(log[e].raw.out) ELSE <<>>

\* The command of o ran and ended with return code 0 (always, in demo mode)
MeasuredOk(o) ==
    demo_mode \/ \A e \in CallsFor(o, "ssh") : ~RunnerFailed(log[e].raw)

FirstChars(text, n) ==
    [i \in 1..(IF Len(text) < n THEN Len(text) ELSE n) |-> text[i]]

\* C9 as stated, read for the outcomes that have a measured output (their
\* command succeeded): every cluster and workload outcome stores at most 200
\* characters, equal to the first 200 characters of the measured output, and
\* every host outcome stores the runner output unchanged.
C9_ValueIsMeasuredPrefix ==
    \A k \in 1..Len(Produced) :
        LET o == Produced[k]
        IN  /\ IsClusterOrWorkload(o) =>
                   /\ Len(o.value) <= 200
                   /\ MeasuredOk(o) => o.value = FirstChars(Measured(o), 200)
            /\ (IsHost(o) /\ MeasuredOk(o)) => o.value = Measured(o)

\* C9, amended: every cluster and workload outcome stores at most 200
\* characters; when its command succeeded with a non-empty output (in demo
\* mode: the demo value is non-empty) the stored value is the first 200
\* characters of that output; a successful empty output is stored as a
\* placeholder ("N/A" for a cluster outcome, "0" or the replica-match text
\* "all normal" for a workload outcome) and a failed command as "N/A"; a
\* host outcome whose command succeeded stores the runner output unchanged.
C9_Truncation ==
    \A k \in 1..Len(Produced) :
        LET o == Produced[k]
        IN  /\ IsClusterOrWorkload(o) =>
                   /\ Len(o.value) <= 200
                   /\ (MeasuredOk(o) /\ Len(Measured(o)) > 0) =>
                          o.value = FirstChars(Measured(o), 200)
                   /\ (MeasuredOk(o) /\ Len(Measured(o)) = 0) =>
                          IF o.category = "Kubernetes"
                          THEN o.value = Chars("N/A")
                          ELSE o.value \in {Chars("0"), Chars("all normal")}
                   /\ ~MeasuredOk(o) => o.value = Chars("N/A")
            /\ (IsHost(o) /\ MeasuredOk(o)) => o.value = Measured(o)

C9_Witness ==
    /\ ~demo_mode
    /\ \E k \in 1..Len(results) :
           /\ results[k].category = "Services"
           /\ Len(Measured(results[k])) = 201
           /\ Len(results[k].value) = 200

EnvRank(o) ==
    CASE o.origin.key = "cicd_servers" -> 0
      [] o.origin.key = "dev_cluster" -> 1
      [] o.origin.key = "stg_cluster" -> 2
      [] o.origin.key = "prd_cluster" -> 3

LevelRank(o) ==
    CASE o.category = "CI/CD" -> 0
      [] o.category = "Kubernetes" -> 2
      [] o.category = "Services" -> 3
      [] o.category = "Database" -> 4
      [] OTHER -> 1

\* C10: in the result list the CI/CD outcomes come first, then those of the
\* development, the staging and the production cluster; within one cluster
\* the host outcomes precede the cluster outcomes, which precede the workload
\* outcomes, which precede the database outcomes.
C10_RunOrdering ==
    \A i, j \in 1..Len(results) :
        i < j =>
            \/ EnvRank(results[i]) < EnvRank(results[j])
            \/ /\ EnvRank(results[i]) = EnvRank(results[j])
               /\ LevelRank(results[i]) <= LevelRank(results[j])

C10_Witness ==
    /\ pc = "done"
    /\ inventory = FullInventory
    /\ checks_config = Catalog
    /\ {results[k].category : k \in 1..Len(results)} =
           {"CI/CD", "DEV Master", "DEV Worker", "STG Master", "PRD Master",
            "Kubernetes", "Services", "Database"}
    /\ {EnvRank(results[k]) : k \in 1..Len(results)} = 0..3

(***************************************************************************)
(* Skipped environments.                                                   *)
(***************************************************************************)
\* The cluster keys run_all_checks asks for
ClusterKeys == {"dev_cluster", "stg_cluster", "prd_cluster"}

AbsentKeys == ClusterKeys \ DOMAIN inventory

\* The iterations a section has to make, from its own inventory entry alone
SectionItems(c) ==
    LET r == RunOrder[c]
    IN  IF r.fn = "check_cicd_services" THEN CicdItems
        ELSE IF r.key \notin DOMAIN inventory THEN <<>>
        ELSE IF r.fn = "check_os" THEN OsItems(inventory[r.key], r.tag)
        ELSE IF r.fn = "check_k8s_cluster"
        THEN MasterItems(inventory[r.key], "k8s_cluster_checks")
        ELSE IF r.fn = "check_k8s_services"
        THEN MasterItems(inventory[r.key], "k8s_service_checks")
        ELSE DbItems(inventory[r.key])

\* The outcomes of section c in the result list, in order
SectionOutcomes(c) == SelectSeq(results, LAMBDA o : o.origin.call = c)

\* Outcome o is the outcome of iteration `it` of a section
OutcomeOfItem(o, it) ==
    IF "check" \in DOMAIN it THEN o.check_id = it.check.id
    ELSE IF "db" \in DOMAIN it
    THEN o.name = Get(it.service, "name", "MySQL") \o " connection"
    ELSE o.name = Get(it.service, "name", "") \o " service"

\* C11: an environment whose key is absent from the inventory contributes
\* no outcome and no remote command or probe is made for it; the run still
\* completes, and every other section (CI/CD and the present environments)
\* contributes exactly the outcomes of its own inventory entry, in its loop
\* order.
C11_SilentSkip ==
    /\ \A key \in AbsentKeys :
           /\ \A k \in 1..Len(Produced) : Produced[k].origin.key # key
           /\ \A e \in 1..Len(log) : RunOrder[log[e].call].key # key
    /\ pc = "done" =>
           \A c \in 1..Len(RunOrder) :
               LET outs == SectionOutcomes(c)
                   its  == SectionItems(c)
               IN  /\ Len(outs) = Len(its)
                   /\ \A i \in 1..Len(its) :
                          /\ outs[i].origin.item = i
                          /\ OutcomeOfItem(outs[i], its[i])

C11_Witness ==
    /\ pc = "done"
    /\ "dev_cluster" \in AbsentKeys
    /\ "stg_cluster" \notin AbsentKeys
    /\ \E k \in 1..Len(results) : results[k].origin.key = "stg_cluster"
    /\ \E k \in 1..Len(results) : results[k].origin.key = "prd_cluster"
    /\ \E e \in 1..Len(log) : RunOrder[log[e].call].key = "prd_cluster"

(***************************************************************************)
(* get_summary.  A dict keyed by strings is a function on a set of         *)
(* strings; {} is the empty function.  The returned value is {} for an     *)
(* empty result list.                                                      *)
(***************************************************************************)
\* sum(1 for r in self.results if r.status == status)
CountStatus(list, status) ==
    Cardinality({i \in 1..Len(list) : list[i].status = status})

\* {'ok': 0, 'warning': 0, 'critical': 0, 'unknown': 0}
ZeroCounts == [ok |-> 0, warning |-> 0, critical |-> 0, unknown |-> 0]

\* The counter an outcome adds to: the if/elif chain, `else` being unknown
StatusKey(status) ==
    IF status = "OK" THEN "ok"
    ELSE IF status = "WARNING" THEN "warning"
    ELSE IF status = "CRITICAL" THEN "critical"
    ELSE "unknown"

\* EmptyGroups that starts from the mapping the previous call returned
GroupsOfLastCall(field) ==
    IF Len(summary) = 0 THEN <<>>
    ELSE LET last == summary[Len(summary)].value
             key  == IF field = "subcategory" THEN "by_environment"
                     ELSE "by_category"
         IN  Get(last, key, <<>>)

\* 'by_environment': {}, 'by_category': {}
EmptyGroups(field) == <<>>

\* for r in self.results: ... summary[group][key][status] += 1
RECURSIVE GroupCounts(_, _, _)
GroupCounts(list, field, acc) ==
    IF Len(list) = 0 THEN acc
    ELSE LET r    == Head(list)
             key  == r[field]
             acc1 == IF key \in DOMAIN acc THEN acc
                     ELSE acc @@ (key :> ZeroCounts)
             k    == StatusKey(r.status)
         IN  GroupCounts(Tail(list), field,
                         [acc1 EXCEPT ![key][k] = @ + 1])

GetSummary(list) ==
    IF Len(list) = 0 THEN <<>>
    ELSE [total    |-> Len(list),
          ok       |-> CountStatus(list, "OK"),
          warning  |-> CountStatus(list, "WARNING"),
          critical |-> CountStatus(list, "CRITICAL"),
          unknown  |-> CountStatus(list, "UNKNOWN"),
          by_environment |->
              GroupCounts(list, "subcategory", EmptyGroups("subcategory")),
          by_category |->
              GroupCounts(list, "category", EmptyGroups("category"))]

(***************************************************************************)
(* Summary harness: a checker whose result list is drawn from bounded      *)
(* lists of outcomes; get_summary is called on it, and between two calls   *)
(* the list may be replaced (a new run, or a filtered copy assigned to     *)
(* checker.results).                                                       *)
(***************************************************************************)
\* Outcomes by status and by (category, environment label)
OutcomePool ==
    {CheckResult("OS-001", "check OS-001", g[1], g[2], "about OS-001", st,
                 Chars("45"), Some(80), "%", Msg("normal range", 0, 0),
                 "dev-master-01", "medium") :
        st \in CheckStatus,
        g \in {<<"DEV Master", "DEV">>, <<"Kubernetes", "DEV">>,
               <<"Kubernetes", "STG">>}}

OutcomeLists == {<<>>} \cup SeqsUpTo(OutcomePool, MaxOutcomes)

\* Result lists of a second run: none, or one CRITICAL outcome
RerunLists ==
    {<<>>} \cup {<<o>> : o \in {x \in OutcomePool : x.status = "CRITICAL"}}

\* [r for r in results if r.status != status]
WithoutStatus(list, status) == SelectSeq(list, LAMBDA o : o.status # status)

InitSummary ==
    /\ inventory = <<>>
    /\ checks_config = <<>>
    /\ demo_mode = FALSE
    /\ results \in OutcomeLists
    /\ local = <<>>
    /\ pc = "idle"
    /\ call = 0
    /\ item = 0
    /\ log = <<>>
    /\ deviations = 0
    /\ fn = <<>>
    /\ ret = <<>>
    /\ config_exists = [inventory |-> TRUE, checks |-> TRUE]
    /\ args = [json |-> FALSE, quiet |-> FALSE]
    /\ exit_code = <<>>
    /\ summary = <<>>

\* checker.get_summary()
CallGetSummary ==
    /\ pc \in {"idle", "summarized"}
    /\ Len(summary) < MaxSummaryCalls
    /\ summary' = Append(summary, [list |-> results,
                                    value |-> GetSummary(results)])
    /\ pc' = "summarized"
    /\ UNCHANGED <<inventory, checks_config, demo_mode, results, local, call,
                   item, log, deviations, fn, ret, config_exists, args,
                   exit_code>>

\* The result list is replaced after a first call: by the list of a new run
\* or by a copy without the outcomes of one status
ReplaceResults ==
    /\ pc = "summarized"
    /\ Len(summary) = 1
    /\ \/ \E l \in RerunLists : results' = l
       \/ \E st \in CheckStatus : results' = WithoutStatus(results, st)
    /\ results' # results
    /\ pc' = "idle"
    /\ UNCHANGED <<inventory, checks_config, demo_mode, local, call, item,
                   log, deviations, fn, ret, mainVars>>

NextSummary ==
    \/ CallGetSummary
    \/ ReplaceResults

SpecSummary == InitSummary /\ [][NextSummary]_vars

(***************************************************************************)
(* Properties of get_summary, checked under SpecSummary.                   *)
(***************************************************************************)
SummaryKeys ==
    {"total", "ok", "warning", "critical", "unknown", "by_environment",
     "by_category"}

GroupTotal(g) == g.ok + g.warning + g.critical + g.unknown

RECURSIVE SumOver(_, _)
SumOver(f, keys) ==
    IF keys = {} THEN 0
    ELSE LET k == CHOOSE x \in keys : TRUE
         IN  GroupTotal(f[k]) + SumOver(f, keys \ {k})

\* The number of outcomes of the list whose field has the given value
CountField(list, field, v) ==
    Cardinality({i \in 1..Len(list) : list[i][field] = v})

GroupsConsistent(groups, list, field) ==
    /\ \A key \in DOMAIN groups :
           GroupTotal(groups[key]) = CountField(list, field, key)
    /\ SumOver(groups, DOMAIN groups) = Len(list)

CountsConsistent(s, list) ==
    /\ SummaryKeys \subseteq DOMAIN s
    /\ s.ok + s.warning + s.critical + s.unknown = s.total
    /\ s.total = Len(list)
    /\ GroupsConsistent(s.by_environment, list, "subcategory")
    /\ GroupsConsistent(s.by_category, list, "category")

\* C12: for every outcome list, the summary get_summary returns has
\* ok + warning + critical + unknown = total = length of the list; the four
\* counts of every by_environment (by_category) group sum to the number of
\* outcomes with that subcategory (category), and the group totals summed
\* over all keys equal total.
C12_SummaryCounts ==
    \A i \in 1..Len(summary) :
        CountsConsistent(summary[i].value, summary[i].list)

\* The same, for the non-empty lists
C12_NonEmptyCounts ==
    \A i \in 1..Len(summary) :
        Len(summary[i].list) > 0 =>
            CountsConsistent(summary[i].value, summary[i].list)

\* The counts of the outcomes of the list that satisfy Sel
CountsOf(list, Sel(_)) ==
    [ok       |-> Cardinality({i \in 1..Len(list) :
                                  Sel(list[i]) /\ list[i].status = "OK"}),
     warning  |-> Cardinality({i \in 1..Len(list) :
                                  Sel(list[i]) /\ list[i].status = "WARNING"}),
     critical |-> Cardinality({i \in 1..Len(list) :
                                  Sel(list[i]) /\ list[i].status = "CRITICAL"}),
     unknown  |-> Cardinality({i \in 1..Len(list) :
                                  Sel(list[i]) /\ list[i].status = "UNKNOWN"})]

\* The summary of a list, stated from the list alone
Projection(list) ==
    IF Len(list) = 0 THEN <<>>
    ELSE LET all == CountsOf(list, LAMBDA o : TRUE)
         IN  [total    |-> Len(list),
              ok       |-> all.ok,
              warning  |-> all.warning,
              critical |-> all.critical,
              unknown  |-> all.unknown,
              by_environment |->
                  [e \in {list[i].subcategory : i \in 1..Len(list)} |->
                      CountsOf(list, LAMBDA o : o.subcategory = e)],
              by_category |->
                  [c \in {list[i].category : i \in 1..Len(list)} |->
                      CountsOf(list, LAMBDA o : o.category = c)]]

\* C13: every get_summary call returns the projection of the result list as
\* it is at the call, whatever earlier calls returned and whatever the list
\* was before; two calls on the same list return the same value; and the
\* call leaves the list as it found it.
C13_PureProjection ==
    /\ \A i \in 1..Len(summary) :
           summary[i].value = Projection(summary[i].list)
    /\ \A i, j \in 1..Len(summary) :
           summary[i].list = summary[j].list =>
               summary[i].value = summary[j].value
    /\ pc = "summarized" => results = summary[Len(summary)].list

C13_Witness ==
    /\ Len(summary) = 2
    /\ Len(summary[1].list) = 3
    /\ Len(summary[2].list) = 2
    /\ summary[2].list = WithoutStatus(summary[1].list, "WARNING")
    /\ "DEV" \in DOMAIN summary[2].value.by_environment
    /\ summary[1].value.by_environment["DEV"].warning = 1
    /\ summary[2].value.by_environment["DEV"].warning = 0

(***************************************************************************)
(* main(): the process.  It checks that the two configuration files        *)
(* exist, constructs the checker, runs all checks, takes the summary and   *)
(* ends with an exit status.  An exit is [code, fault]: the status the     *)
(* process ends with and the exception that ended it ("" for none).        *)
(* Report rendering (generate_reports) is outside the model and is taken   *)
(* to succeed; it reads the summary with dict.get only.                    *)
(***************************************************************************)
Exit(code, fault) == [code |-> code, fault |-> fault]

\* summary[key] of main: an uncaught KeyError ends the process with status 1
MissingKey(s, key) == key \notin DOMAIN s

\* main.py lines 116-186, given the summary just taken
MainExit(s, a) ==
    IF a.json THEN Exit(0, "")
    ELSE IF ~a.quiet /\ \E key \in {"total", "ok", "warning", "critical",
                                       "unknown"} : MissingKey(s, key)
    THEN Exit(1, "KeyError")
    ELSE IF MissingKey(s, "critical") THEN Exit(1, "KeyError")
    ELSE IF s.critical > 0 THEN Exit(2, "")
    ELSE IF MissingKey(s, "warning") THEN Exit(1, "KeyError")
    ELSE IF s.warning > 0 THEN Exit(1, "")
    ELSE Exit(0, "")

InitMain ==
    /\ config_exists \in [inventory : BOOLEAN, checks : BOOLEAN]
    /\ inventory \in IF config_exists.inventory THEN Inventories ELSE {<<>>}
    /\ checks_config \in IF config_exists.checks THEN Catalogs ELSE {<<>>}
    /\ demo_mode \in BOOLEAN
    /\ args \in [json : BOOLEAN, quiet : BOOLEAN]
    /\ results = <<>>
    /\ local = <<>>
    /\ pc = "main"
    /\ call = 0
    /\ item = 0
    /\ log = <<>>
    /\ deviations = 0
    /\ fn = <<>>
    /\ ret = <<>>
    /\ exit_code = <<>>
    /\ summary = <<>>

\* main.py lines 81-88: a configuration file is missing
MainConfigMissing ==
    /\ pc = "main"
    /\ ~config_exists.inventory \/ ~config_exists.checks
    /\ exit_code' = Some(Exit(1, ""))
    /\ pc' = "exited"
    /\ UNCHANGED <<inventory, checks_config, demo_mode, results, local, call,
                   item, log, deviations, fn, ret, config_exists, args,
                   summary>>

\* main.py lines 106-112: the checker is constructed and run_all_checks
\* starts
MainRun ==
    /\ pc = "main"
    /\ config_exists.inventory /\ config_exists.checks
    /\ results' = <<>>
    /\ local' = <<>>
    /\ log' = <<>>
    /\ deviations' = 0
    /\ call' = Seek(1)
    /\ item' = 1
    /\ pc' = IF Seek(1) > Len(RunOrder) THEN "done" ELSE "running"
    /\ UNCHANGED <<inventory, checks_config, demo_mode, fn, ret, mainVars>>

\* main.py lines 113-186: the summary is taken, the output is written and
\* the process ends
MainFinish ==
    /\ pc = "done"
    /\ summary' = Append(summary, [list |-> results,
                                    value |-> GetSummary(results)])
    /\ exit_code' = Some(MainExit(GetSummary(results), args))
    /\ pc' = "exited"
    /\ UNCHANGED <<inventory, checks_config, demo_mode, results, local, call,
                   item, log, deviations, fn, ret, config_exists, args>>

NextMain ==
    \/ MainConfigMissing
    \/ MainRun
    \/ CheckCicdServicesStep
    \/ CheckOsStep
    \/ CheckK8sClusterStep
    \/ CheckK8sServicesStep
    \/ CheckDatabasesStep
    \/ MainFinish

SpecMain == InitMain /\ [][NextMain]_vars

(***************************************************************************)
(* Properties of the process, checked under SpecMain.                      *)
(***************************************************************************)
HasStatus(list, status) == \E k \in 1..Len(list) : list[k].status = status

RunCompleted == pc = "exited" /\ config_exists.inventory /\ config_exists.checks

\* C14: after a run completes the process exits with 2 if some outcome is
\* CRITICAL, with 1 if none is CRITICAL and some outcome is WARNING, and
\* with 0 if none is WARNING or CRITICAL, whatever the number of UNKNOWN
\* outcomes.
C14_ExitCode ==
    RunCompleted =>
        exit_code[1].code =
            IF HasStatus(results, "CRITICAL") THEN 2
            ELSE IF HasStatus(results, "WARNING") THEN 1
            ELSE 0

\* C14 for the runs with at least one outcome in normal or quiet mode
C14_ExitCodeOfReportedRun ==
    (RunCompleted /\ ~args.json /\ Len(results) > 0) =>
        exit_code[1] =
            IF HasStatus(results, "CRITICAL") THEN Exit(2, "")
            ELSE IF HasStatus(results, "WARNING") THEN Exit(1, "")
            ELSE Exit(0, "")

\* C14 for the JSON mode
C14_ExitCodeOfJsonRun ==
    (RunCompleted /\ args.json) =>
        exit_code[1].code =
            IF HasStatus(results, "CRITICAL") THEN 2
            ELSE IF HasStatus(results, "WARNING") THEN 1
            ELSE 0

ConfigMissing ==
    pc = "exited" /\ (~config_exists.inventory \/ ~config_exists.checks)

\* C15: when the inventory file or the catalog file does not exist the
\* process stops before any check, remote command or probe, and its exit
\* code is none of the codes 0, 1 and 2 that report check outcomes.
C15_ConfigMissing ==
    ConfigMissing =>
        /\ results = <<>>
        /\ log = <<>>
        /\ exit_code[1].code \notin {0, 1, 2}

\* C15 without the requirement on the exit code
C15_StopsBeforeAnyCheck ==
    ConfigMissing => results = <<>> /\ local = <<>> /\ log = <<>>

(***************************************************************************)
(* Reasons for UNKNOWN, checked under Spec.                                *)
(***************************************************************************)
\* The iteration that produced o
ItemOf(o) == WorkItems(o.origin.call)[o.origin.item]

IsRemoteCheck(o) ==
    o.origin.fn \in {"check_os", "check_k8s_cluster", "check_k8s_services"}

\* The runner reported failure for the command of o
RunnerFailedFor(o) ==
    ~demo_mode /\ \E e \in CallsFor(o, "ssh") : RunnerFailed(log[e].raw)

\* The evaluation the definition of o selects: "expected", "threshold",
\* "replica" or "none"
PolicyOf(o) ==
    LET check == ItemOf(o).check
    IN  IF o.origin.fn = "check_os"
        THEN IF "threshold" \in DOMAIN check THEN "threshold" ELSE "none"
        ELSE IF o.origin.fn = "check_k8s_cluster"
        THEN IF Len(Get(check, "expected", <<>>)) > 0 THEN "expected"
             ELSE IF "threshold" \in DOMAIN check THEN "threshold"
             ELSE "none"
        ELSE IF Get(check, "check_type", "") = "replica_match" THEN "replica"
             ELSE IF "threshold" \in DOMAIN check THEN "threshold"
             ELSE "none"

\* The text handed to the evaluation: the measured output, a workload
\* check taking an empty output for "0"
EvaluatedText(o) ==
    IF o.origin.fn = "check_k8s_services" /\ Len(Measured(o)) = 0
    THEN Chars("0")
    ELSE Measured(o)

\* The measured output of o cannot be parsed by the evaluation applied to
\* it: not a number for a threshold, no record for an expected pattern
Unparseable(o) ==
    /\ ~demo_mode
    /\ IsRemoteCheck(o)
    /\ \/ /\ PolicyOf(o) = "threshold"
          /\ ~ParseFloat(Remove(EvaluatedText(o), "%")).ok
       \/ /\ PolicyOf(o) = "expected"
          /\ \/ Blank(Measured(o))
             \/ Measured(o) = Chars("N/A")

\* In demo mode the table of the section has no entry for the identifier
NoDemoEntry(o) ==
    /\ demo_mode
    /\ IsRemoteCheck(o)
    /\ Measured(o) = NoDemoData[1]
    /\ o.message = Msg(NoDemoData[3], 0, 0)

UnparseableReached ==
    /\ pc = "done"
    /\ ~demo_mode
    /\ \E k \in 1..Len(results) :
           /\ results[k].status = "UNKNOWN"
           /\ Unparseable(results[k])
           /\ ~RunnerFailedFor(results[k])

(***************************************************************************)
(* Parse failures, checked under Spec.                                     *)
(***************************************************************************)
\* The raw result the runner gave for the command of o (real mode)
RawOf(o) == log[CHOOSE e \in CallsFor(o, "ssh") : TRUE].raw

\* The outcome the section computes for the iteration of o from a raw
\* runner result, whatever the rest of the run
OutcomeFor(o, raw) ==
    LET it  == ItemOf(o)
        key == o.origin.key
    IN  IF o.origin.fn = "check_os"
        THEN RunOsCheck(it.check, ExecuteSsh(raw),
                        Get(it.server, "name", Get(it.server, "hostname", "")),
                        Get(it.server, "category", "OS"),
                        RunOrder[o.origin.call].tag)
        ELSE IF o.origin.fn = "check_k8s_cluster"
        THEN RunK8sCheck(it.check, ExecuteSsh(raw), EnvName(inventory[key], key))
        ELSE RunSvcCheck(it.check, ExecuteSsh(raw), EnvName(inventory[key], key))

\* Threshold evaluation was applied to an output that is not a number
ParseFailed(o) ==
    /\ ~demo_mode
    /\ IsRemoteCheck(o)
    /\ ~RunnerFailedFor(o)
    /\ PolicyOf(o) = "threshold"
    /\ ~ParseFloat(Remove(EvaluatedText(o), "%")).ok

\* The number of iterations of the sections 1..c of a run
RECURSIVE ItemsUpTo(_)
ItemsUpTo(c) == IF c = 0 THEN 0 ELSE Len(SectionItems(c)) + ItemsUpTo(c - 1)

\* C17: when threshold evaluation is applied to an output that is not a
\* number (after removing "%" and surrounding whitespace; this includes
\* empty and multi-line outputs) the outcome is UNKNOWN with the
\* parse-failure message; the run goes on to its end, and the status of
\* every other outcome is the one its own measurement gives, as in a run
\* where that output had been a number.
C17_ParseFailure ==
    /\ \A k \in 1..Len(Produced) :
           LET o == Produced[k]
           IN  /\ ParseFailed(o) =>
                      /\ o.status = "UNKNOWN"
                      /\ o.message = Msg("parse failed", 0, 0)
               /\ (~demo_mode /\ IsRemoteCheck(o)) =>
                      /\ o.status = OutcomeFor(o, RawOf(o)).status
                      /\ o.message = OutcomeFor(o, RawOf(o)).message
    /\ pc = "done" => Len(results) = ItemsUpTo(Len(RunOrder))

C17_Witness ==
    /\ pc = "done"
    /\ \E k \in 1..Len(results) :
           /\ ParseFailed(results[k])
           /\ Len(Measured(results[k])) > 0
           /\ results[k].status = "UNKNOWN"
           /\ \E j \in 1..Len(results) :
                  /\ j > k
                  /\ results[j].origin.call = results[k].origin.call
                  /\ PolicyOf(results[j]) = "threshold"
                  /\ results[j].status = "OK"

(***************************************************************************)
(* Completion of a run, checked under FairSpec.                            *)
(***************************************************************************)
\* Some runner call of the run so far failed
SomeFailure ==
    \E e \in 1..Len(log) :
        \/ log[e].op = "ssh" /\ RunnerFailed(log[e].raw)
        \/ log[e].op = "tcp" /\ log[e].raw # 0
        \/ log[e].op = "http" /\ log[e].raw # ExpectedHttpStatus

\* Every iteration of the fixed order has contributed its outcome
FullChecklist ==
    /\ Len(results) = ItemsUpTo(Len(RunOrder))
    /\ \A c \in 1..Len(RunOrder) :
           LET outs == SectionOutcomes(c)
           IN  /\ Len(outs) = Len(SectionItems(c))
               /\ \A i \in 1..Len(outs) :
                      OutcomeOfItem(outs[i], SectionItems(c)[i])

\* C18: whatever the runner failures (non-zero exit, timeout, failed
\* probe), a run that has started reaches its end, and at its end every
\* iteration of the fixed order has contributed its outcome: a failure
\* aborts nothing and every later pair is still evaluated.
C18_RunCompletion ==
    /\ [](pc = "done" => FullChecklist)
    /\ [](pc = "running" => item <= Len(WorkItems(call)))
    /\ (pc = "running") ~> (pc = "done")

C18_Witness ==
    /\ pc = "done"
    /\ ~demo_mode
    /\ FullChecklist
    /\ \E k \in 1..Len(results) :
           /\ \E e \in 1..Len(log) :
                  /\ log[e].call = results[k].origin.call
                  /\ log[e].item = results[k].origin.item
                  /\ log[e].op = "ssh"
                  /\ log[e].raw.kind = "timeout"
           /\ results[k].status = "UNKNOWN"
           /\ \E j \in (k + 1)..Len(results) :
                  /\ results[j].origin.call = results[k].origin.call
                  /\ results[j].status # "UNKNOWN"

(***************************************************************************)
(* The evaluations a run owes, read off the inventory and the catalog.     *)
(***************************************************************************)
EnvTag(key) ==
    CASE key = "dev_cluster" -> "DEV"
      [] key = "stg_cluster" -> "STG"
      [] key = "prd_cluster" -> "PRD"

PresentEnvs == {key \in ClusterKeys : key \in DOMAIN inventory}

Nodes(key, role) == Get(inventory[key], role, <<>>)

Defs(section) == Get(checks_config, section, <<>>)

\* (host-check definition, control-plane or worker node)
HostPairs ==
    UNION {UNION {{[kind |-> "host", key |-> key, role |-> role,
                    n |-> n, d |-> d] :
                       n \in 1..Len(Nodes(key, role)),
                       d \in 1..Len(Defs("os_checks"))} :
                  role \in {"masters", "workers"}} :
           key \in PresentEnvs}

\* cluster-check and workload-check definitions of the environments with a
\* control-plane node
MasterPairs(kind, section) ==
    UNION {{[kind |-> kind, key |-> key, d |-> d] :
                d \in 1..Len(Defs(section))} :
           key \in {k \in PresentEnvs : Len(Nodes(k, "masters")) > 0}}

\* (CI/CD server, service)
CicdPairs ==
    LET servers == Get(inventory, "cicd_servers", <<>>)
    IN  UNION {{[kind |-> "cicd", n |-> n, d |-> d] :
                    d \in 1..Len(Get(servers[n].server, "services", <<>>))} :
               n \in 1..Len(servers)}

\* (database, service)
DbPairs ==
    UNION {UNION {{[kind |-> "db", key |-> key, n |-> n, d |-> d] :
                      d \in 1..Len(Get(Nodes(key, "databases")[n],
                                       "services", <<>>))} :
                  n \in 1..Len(Nodes(key, "databases"))} :
           key \in PresentEnvs}

AllPairs ==
    HostPairs \cup MasterPairs("cluster", "k8s_cluster_checks")
        \cup MasterPairs("workload", "k8s_service_checks")
        \cup CicdPairs \cup DbPairs

\* Outcome o reports the evaluation of pair p
OutcomeOfPair(o, p) ==
    CASE p.kind = "host" ->
             LET node == Nodes(p.key, p.role)[p.n]
             IN  /\ o.check_id = Defs("os_checks")[p.d].id
                 /\ o.target = Get(node, "name", Get(node, "hostname", ""))
                 /\ o.category = EnvTag(p.key) \o
                        (IF p.role = "masters" THEN " Master" ELSE " Worker")
      [] p.kind = "cluster" ->
             /\ o.check_id = Defs("k8s_cluster_checks")[p.d].id
             /\ o.category = "Kubernetes"
             /\ o.target = EnvName(inventory[p.key], p.key) \o " Cluster"
      [] p.kind = "workload" ->
             /\ o.check_id = Defs("k8s_service_checks")[p.d].id
             /\ o.category = "Services"
             /\ o.target = EnvName(inventory[p.key], p.key) \o " Services"
      [] p.kind = "cicd" ->
             LET entry == inventory.cicd_servers[p.n]
                 service == entry.server.services[p.d]
             IN  /\ o.category = "CI/CD"
                 /\ o.target = Get(entry.server, "name", entry.key)
                 /\ o.name = Get(service, "name", "") \o " service"
      [] p.kind = "db" ->
             LET db == Nodes(p.key, "databases")[p.n]
                 service == db.services[p.d]
             IN  /\ o.category = "Database"
                 /\ o.target = EnvName(inventory[p.key], p.key) \o " "
                                   \o Get(db, "name", "")
                 /\ o.name = Get(service, "name", "MySQL") \o " connection"

OutcomesOfPair(p) == {k \in 1..Len(results) : OutcomeOfPair(results[k], p)}

\* C19: at the end of a run the result list holds exactly one outcome for
\* each (host check, control-plane or worker node) pair of each present
\* environment, for each cluster check and each workload check of each
\* present environment with a control-plane node, for each (CI/CD server,
\* service) pair and for each (database, service) pair, and nothing else.
C19_OneOutcomePerPair ==
    pc = "done" =>
        /\ \A p \in AllPairs : Cardinality(OutcomesOfPair(p)) = 1
        /\ \A k \in 1..Len(results) :
               \E p \in AllPairs : OutcomeOfPair(results[k], p)
        /\ Len(results) = Cardinality(AllPairs)

C19_Witness ==
    /\ pc = "done"
    /\ \E key \in PresentEnvs : Len(Nodes(key, "masters")) > 1
    /\ \E key \in PresentEnvs : Len(Nodes(key, "workers")) > 0
    /\ \A kind \in {"host", "cluster", "workload", "cicd", "db"} :
           \E p \in AllPairs : p.kind = kind /\ OutcomesOfPair(p) # {}
    /\ \E k \in 1..Len(results) : results[k].status = "UNKNOWN"

(***************************************************************************)
(* Runner calls per evaluation.                                            *)
(***************************************************************************)
\* The outcomes produced so far by the iteration log entry e belongs to
OutcomesOfCall(e) ==
    {k \in 1..Len(Produced) :
        /\ Produced[k].origin.call = log[e].call
        /\ Produced[k].origin.item = log[e].item}

\* The node the command of o is sent to
NodeOf(o) ==
    IF o.origin.fn = "check_os" THEN ItemOf(o).server ELSE ItemOf(o).master

\* C20: within one run the remote command of each (check definition,
\* target) pair is executed exactly once, on that target, whether it
\* succeeds or fails, and a failed execution yields exactly one outcome for
\* the pair, UNKNOWN, with no second attempt; a probed service gets one
\* HTTP probe and at most one TCP probe, a database service one TCP probe.
\* In demo mode the demo table stands in for the runner and no command or
\* probe is executed at all.
C20_NoRetries ==
    /\ demo_mode => log = <<>>
    /\ ~demo_mode =>
           \A k \in 1..Len(Produced) :
               LET o == Produced[k]
               IN  IF IsRemoteCheck(o)
                   THEN /\ Cardinality(CallsFor(o, "ssh")) = 1
                        /\ CallsFor(o, "http") \cup CallsFor(o, "tcp") = {}
                        /\ \A e \in CallsFor(o, "ssh") :
                               /\ log[e].command = ItemOf(o).check.command
                               /\ log[e].ip = Get(NodeOf(o), "ip", "")
                   ELSE IF o.origin.fn = "check_cicd_services"
                   THEN /\ Cardinality(CallsFor(o, "http")) = 1
                        /\ Cardinality(CallsFor(o, "tcp")) <= 1
                        /\ CallsFor(o, "ssh") = {}
                   ELSE /\ Cardinality(CallsFor(o, "tcp")) = 1
                        /\ CallsFor(o, "ssh") \cup CallsFor(o, "http") = {}
    /\ \A e \in 1..Len(log) :
           /\ Cardinality(OutcomesOfCall(e)) = 1
           /\ (log[e].op = "ssh" /\ RunnerFailed(log[e].raw)) =>
                  \A k \in OutcomesOfCall(e) : Produced[k].status = "UNKNOWN"
    /\ \A j, k \in 1..Len(Produced) :
           (/\ Produced[j].origin.call = Produced[k].origin.call
            /\ Produced[j].origin.item = Produced[k].origin.item) => j = k

C20_Witness ==
    /\ pc = "done"
    /\ ~demo_mode
    /\ \E e, f \in 1..Len(log) :
           /\ e < f
           /\ log[e].op = "ssh" /\ log[f].op = "ssh"
           /\ RunnerFailed(log[e].raw)
           /\ ~RunnerFailed(log[f].raw)
           /\ \A k \in OutcomesOfCall(e) : Produced[k].status = "UNKNOWN"
           /\ \A k \in OutcomesOfCall(f) : Produced[k].status # "UNKNOWN"


(***************************************************************************)
(* Shape of the value get_summary returns, checked under SpecSummary.      *)
(***************************************************************************)
\* C21: for every outcome list, the empty one included, the value
\* get_summary returns has the total count, the four per-status counts and
\* the two group mappings, all zero or empty for the empty list, so that
\* total, warning and critical can be read from it.
C21_SummaryShape ==
    \A i \in 1..Len(summary) :
        LET s == summary[i].value
        IN  /\ SummaryKeys \subseteq DOMAIN s
            /\ Len(summary[i].list) = 0 =>
                   /\ s.total = 0
                   /\ <<s.ok, s.warning, s.critical, s.unknown>>
                          = <<0, 0, 0, 0>>
                   /\ s.by_environment = <<>>
                   /\ s.by_category = <<>>

\* The shape holds for every list with an outcome
C21_NonEmptyShape ==
    \A i \in 1..Len(summary) :
        Len(summary[i].list) > 0 => SummaryKeys \subseteq DOMAIN summary[i].value


(***************************************************************************)
(* Catalog entries without a required field.  The file is loaded as it is  *)
(* (_load_config); check['id'], check['command'], check['name'] and        *)
(* check['description'] are read when the entry is run, and a missing key  *)
(* raises KeyError, which nothing catches.                                 *)
(***************************************************************************)
RequiredFields == {"id", "name", "description", "command"}

Without(check, field) == [k \in DOMAIN check \ {field} |-> check[k]]

\* A host check without name after a complete one
NoNameCatalog ==
    [os_checks |->
        <<Check("OS-001", "df -h /") @@ [threshold |-> 80, unit |-> "%"],
          Without(Check("OS-004", "uptime"), "name")>>]

\* A cluster check without command
NoCommandCatalog ==
    [os_checks |-> <<Check("OS-004", "uptime")>>,
     k8s_cluster_checks |->
        <<Without(Check("K8S-010", "kubectl version"), "command")>>,
     k8s_service_checks |->
        <<Check("SVC-007", "kubectl get pods") @@ [threshold |-> 0]>>]

\* A workload check without identifier
NoIdCatalog ==
    [k8s_cluster_checks |-> <<Check("K8S-010", "kubectl version")>>,
     k8s_service_checks |->
        <<Without(Check("SVC-007", "kubectl get pods"), "id")>>]

\* A host check without description
NoDescriptionCatalog ==
    [os_checks |-> <<Without(Check("OS-004", "uptime"), "description")>>]

MalformedCatalogs ==
    {NoNameCatalog, NoCommandCatalog, NoIdCatalog, NoDescriptionCatalog}

InitMalformed ==
    /\ inventory \in Inventories
    /\ checks_config \in MalformedCatalogs
    /\ demo_mode \in BOOLEAN
    /\ config_exists = [inventory |-> TRUE, checks |-> TRUE]
    /\ args = [json |-> FALSE, quiet |-> FALSE]
    /\ results = <<>>
    /\ local = <<>>
    /\ pc = "main"
    /\ call = 0
    /\ item = 0
    /\ log = <<>>
    /\ deviations = 0
    /\ fn = <<>>
    /\ ret = <<>>
    /\ exit_code = <<>>
    /\ summary = <<>>

\* The entry of the iteration in progress lacks a key its runner reads
EntryIncomplete ==
    /\ pc = "running"
    /\ RunOrder[call].fn \in
           {"check_os", "check_k8s_cluster", "check_k8s_services"}
    /\ RunnerKeys \ DOMAIN WorkItems(call)[item].check # {}

\* _run_os_check, _run_k8s_check, _run_svc_check and their demo
\* counterparts on such an entry: KeyError at check['id'] or
\* check['command'] before execute_ssh is called, at check['name'] or
\* check['description'] after it has returned; the exception leaves
\* run_all_checks and main, and the process ends with status 1
CheckKeyError ==
    /\ EntryIncomplete
    /\ LET it   == WorkItems(call)[item]
           node == IF RunOrder[call].fn = "check_os" THEN it.server
                   ELSE it.master
           port == IF RunOrder[call].fn = "check_os"
                   THEN Get(node, "port", 22) ELSE Get(node, "ssh_port", 22)
       IN  IF ~demo_mode /\ {"id", "command"} \subseteq DOMAIN it.check
           THEN \E raw \in SshResults :
                   log' = Append(log, LogEntry("ssh", Get(node, "ip", ""),
                                               port, it.check.command, raw))
           ELSE log' = log
    /\ local' = <<>>
    /\ pc' = "exited"
    /\ exit_code' = Some(Exit(1, "KeyError"))
    /\ UNCHANGED <<inventory, checks_config, demo_mode, results, call, item,
                   deviations, fn, ret, config_exists, args, summary>>

NextMalformed ==
    \/ MainRun
    \/ CheckCicdServicesStep
    \/ CheckOsStep
    \/ CheckK8sClusterStep
    \/ CheckK8sServicesStep
    \/ CheckDatabasesStep
    \/ CheckKeyError
    \/ MainFinish

SpecMalformed == InitMalformed /\ [][NextMalformed]_vars


\* Some definition of the catalog lacks a required field
Malformed ==
    \E section \in DOMAIN checks_config :
        \E j \in 1..Len(checks_config[section]) :
            RequiredFields \ DOMAIN checks_config[section][j] # {}

Faulted == pc = "exited" /\ exit_code = Some(Exit(1, "KeyError"))

\* C22: a definition without identifier, name, description or command makes
\* the process fail at startup: the fault is raised before any remote
\* command or probe of the run is executed and before any outcome is
\* recorded.
C22_StartupFault ==
    (Malformed /\ Faulted) =>
        /\ log = <<>>
        /\ results = <<>>

\* What the code does: the fault is raised when the run reaches an entry
\* that lacks a key its runner reads, and ends the process there
C22_FaultWhenReached == [][EntryIncomplete => (CheckKeyError /\ Faulted')]_vars


(***************************************************************************)
(* Environment labels of the outcomes of a run, checked under Spec.        *)
(***************************************************************************)
\* The subcategory labels of the outcomes produced for a cluster key
LabelsOf(key) ==
    {Produced[k].subcategory :
        k \in {i \in 1..Len(Produced) : Produced[i].origin.key = key}}

\* C23: all outcomes a run produces for one cluster key (host, cluster,
\* workload and database checks) carry the same subcategory label, so that
\* the outcomes of a present environment fall into one by_environment group,
\* also when the 'env' field is missing or is not DEV, STG or PRD.
C23_EnvironmentLabel ==
    \A key \in ClusterKeys : Cardinality(LabelsOf(key)) <= 1

\* The labels are the same whenever the 'env' field is the literal label
\* run_all_checks passes to check_os
C23_LabelOfMatchingEnv ==
    \A key \in ClusterKeys :
        (key \in DOMAIN inventory /\ Get(inventory[key], "env", "") = EnvTag(key))
            => LabelsOf(key) \subseteq {EnvTag(key)}


(***************************************************************************)
(* Exit code and output mode, checked under SpecMain.                      *)
(***************************************************************************)
Modes == [json : BOOLEAN, quiet : BOOLEAN]

\* C24: for the same outcome list the exit code is the one every other
\* output mode (JSON, quiet, normal) gives; a list with a CRITICAL outcome
\* gives 2 and a list with WARNING and no CRITICAL outcome gives 1 in every
\* mode.  Stated for the lists with at least one outcome.
C24_ExitCodeByMode ==
    (RunCompleted /\ Len(results) > 0) =>
        /\ \A a \in Modes :
               exit_code[1].code = MainExit(GetSummary(results), a).code
        /\ HasStatus(results, "CRITICAL") => exit_code[1].code = 2
        /\ (HasStatus(results, "WARNING") /\ ~HasStatus(results, "CRITICAL"))
               => exit_code[1].code = 1

\* The quiet mode and the normal mode agree on such lists
C24_QuietAndNormalAgree ==
    (RunCompleted /\ Len(results) > 0 /\ ~args.json) =>
        \A a \in {m \in Modes : ~m.json} :
            exit_code[1] = MainExit(GetSummary(results), a)


(***************************************************************************)
(* Demo harness: a demo runner is applied to a catalog definition whose    *)
(* identifier is in its table.                                             *)
(***************************************************************************)
DemoIds(prefix) ==
    {prefix \o n : n \in {"001", "002", "003", "004", "005", "006", "007",
                          "008", "009", "010"}}

\* The shapes of a definition: no policy, a percentage threshold, a count
\* threshold, an expected pattern, the replica comparison
DefinitionShapes ==
    {<<>>, [threshold |-> 80, unit |-> "%"], [threshold |-> 0],
     [expected |-> Chars("Ready")], [check_type |-> "replica_match"]}

DemoCalls ==
    {[name |-> "_run_demo_os_check", check |-> BaseCheck(id) @@ sh] :
        id \in DemoIds("OS-"), sh \in DefinitionShapes}
    \cup {[name |-> "_run_demo_k8s_check", check |-> BaseCheck(id) @@ sh] :
             id \in DemoIds("K8S-"), sh \in DefinitionShapes}
    \cup {[name |-> "_run_demo_svc_check", check |-> BaseCheck(id) @@ sh] :
             id \in DemoIds("SVC-"), sh \in DefinitionShapes}

InitDemo ==
    /\ inventory = <<>>
    /\ checks_config = <<>>
    /\ demo_mode = TRUE
    /\ results = <<>>
    /\ local = <<>>
    /\ pc = "idle"
    /\ call = 0
    /\ item = 0
    /\ log = <<>>
    /\ deviations = 0
    /\ fn \in DemoCalls
    /\ ret = <<>>
    /\ config_exists = [inventory |-> TRUE, checks |-> TRUE]
    /\ args = [json |-> FALSE, quiet |-> FALSE]
    /\ exit_code = <<>>
    /\ summary = <<>>

CallRunDemoOsCheck ==
    /\ ret = <<>>
    /\ fn.name = "_run_demo_os_check"
    /\ ret' = <<RunDemoOsCheck(fn.check, "dev-master-01", "DEV Master", "DEV")>>
    /\ UNCHANGED <<runVars, fn, mainVars>>

CallRunDemoK8sCheck ==
    /\ ret = <<>>
    /\ fn.name = "_run_demo_k8s_check"
    /\ ret' = <<RunDemoK8sCheck(fn.check, "DEV")>>
    /\ UNCHANGED <<runVars, fn, mainVars>>

CallRunDemoSvcCheck ==
    /\ ret = <<>>
    /\ fn.name = "_run_demo_svc_check"
    /\ ret' = <<RunDemoSvcCheck(fn.check, "DEV")>>
    /\ UNCHANGED <<runVars, fn, mainVars>>

NextDemo ==
    \/ CallRunDemoOsCheck
    \/ CallRunDemoK8sCheck
    \/ CallRunDemoSvcCheck

SpecDemo == InitDemo /\ [][NextDemo]_vars

\* The value the demo table stores for the identifier of the call
StoredValue ==
    IF fn.name = "_run_demo_os_check" THEN DemoOsValues(fn.check.id)[1]
    ELSE IF fn.name = "_run_demo_k8s_check" THEN DemoK8sValues(fn.check.id)[1]
    ELSE DemoSvcValues(fn.check.id)[1]

\* The outcome of the real runner of the same level for the stored value
\* arriving as the output of a successful command
EngineOutcome ==
    LET conn == ExecuteSsh([kind |-> "exit", rc |-> 0, out |-> StoredValue])
    IN  IF fn.name = "_run_demo_os_check"
        THEN RunOsCheck(fn.check, conn, "dev-master-01", "DEV Master", "DEV")
        ELSE IF fn.name = "_run_demo_k8s_check"
        THEN RunK8sCheck(fn.check, conn, "DEV")
        ELSE RunSvcCheck(fn.check, conn, "DEV")

\* C25: the status of a demo-mode outcome is the status the evaluation of
\* the real runner gives to the stored demo value under the policy of the
\* definition; in particular for the zero-is-healthy identifiers that carry
\* a threshold.
C25_DemoAgreesWithEngine ==
    ret # <<>> => ret[1].status = EngineOutcome.status

\* The two agree for the definitions to which the real runner of the level
\* applies no policy
C25_AgreeWithoutPolicy ==
    (ret # <<>> /\ EngineOutcome.message = Msg("information collected", 0, 0))
        => ret[1].status = EngineOutcome.status


(***************************************************************************)
(* The placeholder "N/A" and the status, checked under Spec.               *)
(***************************************************************************)
\* C26: in a real-mode run an outcome whose stored value is "N/A" has
\* status UNKNOWN, the cluster checks without threshold and expected
\* pattern whose command succeeds with empty output included.
C26_PlaceholderImpliesUnknown ==
    ~demo_mode =>
        \A k \in 1..Len(Produced) :
            Produced[k].value = Chars("N/A") => Produced[k].status = "UNKNOWN"

\* The code stored the placeholder for o: the command failed, or the
\* command of a cluster check succeeded with empty output
PlaceholderStored(o) ==
    /\ ~demo_mode
    /\ IsRemoteCheck(o)
    /\ \/ RunnerFailedFor(o)
       \/ o.origin.fn = "check_k8s_cluster" /\ Len(Measured(o)) = 0

\* C26 as the code has it: the placeholder comes with UNKNOWN, except for a
\* cluster check without threshold and expected pattern whose command
\* succeeds with empty output, which is OK; never with WARNING or CRITICAL.
\* A stored "N/A" that is no placeholder is the output itself.
C26_PlaceholderStatus ==
    ~demo_mode =>
        \A k \in 1..Len(Produced) :
            LET o == Produced[k]
            IN  /\ PlaceholderStored(o) =>
                       /\ o.value = Chars("N/A")
                       /\ o.status =
                              IF ~RunnerFailedFor(o) /\ PolicyOf(o) = "none"
                              THEN "OK" ELSE "UNKNOWN"
                /\ (o.value = Chars("N/A") /\ ~PlaceholderStored(o)) =>
                       /\ IsRemoteCheck(o)
                       /\ Measured(o) = Chars("N/A")

C26_Witness ==
    /\ ~demo_mode
    /\ \E j \in 1..Len(Produced) :
           /\ PlaceholderStored(Produced[j])
           /\ ~RunnerFailedFor(Produced[j])
           /\ PolicyOf(Produced[j]) = "none"
           /\ Produced[j].status = "OK"
           /\ Produced[j].value = Chars("N/A")


\* The placeholder of a cluster check with an expected pattern whose
\* command succeeds with empty output comes with UNKNOWN
EmptyExpectedReached ==
    /\ ~demo_mode
    /\ \E k \in 1..Len(Produced) :
           /\ PlaceholderStored(Produced[k])
           /\ ~RunnerFailedFor(Produced[k])
           /\ PolicyOf(Produced[k]) = "expected"
           /\ Produced[k].status = "UNKNOWN"


(***************************************************************************)
(* The probes of a CI/CD service, checked under Spec.                      *)
(***************************************************************************)
IsCicd(o) == o.origin.fn = "check_cicd_services"

HttpFailed(e) == log[e].raw # ExpectedHttpStatus

TcpFailed(e) == log[e].raw # 0

\* C27: for each CI/CD service in real mode the HTTP probe is made, first,
\* and the TCP probe is made only if the HTTP probe reported failure (no
\* exchange or a status other than the expected one), after it; the outcome
\* is CRITICAL exactly if both probes fail, OK with value "<status> OK" if
\* the HTTP probe succeeds, OK with value "TCP <port> Open" if the HTTP
\* probe fails and the TCP probe succeeds; at most two probes per service.
C27_ProbeFallback ==
    ~demo_mode =>
        \A k \in 1..Len(Produced) :
            LET o    == Produced[k]
                hs   == CallsFor(o, "http")
                ts   == CallsFor(o, "tcp")
                port == Get(ItemOf(o).service, "port", 80)
            IN  IsCicd(o) =>
                    /\ Cardinality(hs) = 1
                    /\ Cardinality(ts) <= 1
                    /\ CallsFor(o, "ssh") = {}
                    /\ \A h \in hs :
                           /\ log[h].port = port
                           /\ (ts # {}) <=> HttpFailed(h)
                           /\ \A t \in ts : h < t /\ log[t].port = port
                           /\ (o.status = "CRITICAL") <=>
                                  (HttpFailed(h) /\ \A t \in ts : TcpFailed(t))
                           /\ o.status \in {"OK", "CRITICAL"}
                           /\ ~HttpFailed(h) =>
                                  /\ o.status = "OK"
                                  /\ o.value = IntToStr(log[h].raw) \o Chars(" OK")
                           /\ (HttpFailed(h) /\ \E t \in ts : ~TcpFailed(t)) =>
                                  /\ o.status = "OK"
                                  /\ o.value = Chars("TCP ") \o IntToStr(port)
                                                   \o Chars(" Open")

C27_Witness ==
    /\ ~demo_mode
    /\ \E k \in 1..Len(Produced) :
           LET o == Produced[k]
           IN  /\ IsCicd(o)
               /\ \E h \in CallsFor(o, "http") : log[h].raw \notin {0, ExpectedHttpStatus}
               /\ \E t \in CallsFor(o, "tcp") : ~TcpFailed(t)
               /\ o.status = "OK"
               /\ o.value = TcpOpenValue(Get(ItemOf(o).service, "port", 80))

\* Both probes of a service fail
BothProbesFailReached ==
    /\ ~demo_mode
    /\ \E k \in 1..Len(Produced) :
           /\ IsCicd(Produced[k])
           /\ \E t \in CallsFor(Produced[k], "tcp") : TcpFailed(t)
           /\ Produced[k].status = "CRITICAL"


(***************************************************************************)
(* Cluster and workload checks and the control-plane nodes, checked under  *)
(* Spec.                                                                   *)
(***************************************************************************)
IsMasterCheck(o) ==
    o.origin.fn \in {"check_k8s_cluster", "check_k8s_services"}

OutcomesOfKey(key, fns) ==
    {k \in 1..Len(Produced) :
        Produced[k].origin.key = key /\ Produced[k].origin.fn \in fns}

\* The (database, service) pairs of an environment
DbPairsOf(key) == {p \in DbPairs : p.key = key}

\* C28: the commands of the cluster and workload checks of an environment
\* are sent to its first control-plane node and to no other; a present
\* environment without control-plane node gets no cluster and no workload
\* outcome, the run completes, and its host checks (worker nodes) and
\* database checks contribute their outcomes; a cluster or workload outcome
\* whose command failed on the first control-plane node is UNKNOWN, no
\* other control-plane node being tried.
C28_ControlPlane ==
    /\ \A e \in 1..Len(log) :
           LET r == RunOrder[log[e].call]
           IN  r.fn \in {"check_k8s_cluster", "check_k8s_services"} =>
                   /\ Len(Nodes(r.key, "masters")) > 0
                   /\ log[e].ip = Get(Nodes(r.key, "masters")[1], "ip", "")
    /\ \A k \in 1..Len(Produced) :
           LET o == Produced[k]
           IN  IsMasterCheck(o) =>
                   /\ Len(Nodes(o.origin.key, "masters")) > 0
                   /\ ~demo_mode => Cardinality(CallsFor(o, "ssh")) = 1
                   /\ RunnerFailedFor(o) => o.status = "UNKNOWN"
    /\ pc = "done" =>
           \A key \in PresentEnvs :
               Len(Nodes(key, "masters")) = 0 =>
                   /\ OutcomesOfKey(key, {"check_k8s_cluster",
                                          "check_k8s_services"}) = {}
                   /\ Cardinality(OutcomesOfKey(key, {"check_os"}))
                          = Len(Nodes(key, "workers"))
                                * Len(Defs("os_checks"))
                   /\ Cardinality(OutcomesOfKey(key, {"check_databases"}))
                          = Cardinality(DbPairsOf(key))

C28_Witness ==
    /\ pc = "done"
    /\ ~demo_mode
    /\ \E k \in 1..Len(results) :
           /\ IsMasterCheck(results[k])
           /\ Len(Nodes(results[k].origin.key, "masters")) > 1
           /\ RunnerFailedFor(results[k])
           /\ results[k].status = "UNKNOWN"

\* A run on an environment with workers and databases and no control-plane
\* node reaches its end
NoControlPlaneReached ==
    /\ pc = "done"
    /\ \E key \in PresentEnvs :
           /\ Len(Nodes(key, "masters")) = 0
           /\ OutcomesOfKey(key, {"check_os"}) # {}
           /\ OutcomesOfKey(key, {"check_databases"}) # {}
           /\ Len(Defs("k8s_cluster_checks")) > 0


(***************************************************************************)
(* Several runs of one checker: after a run the caller takes the summary,  *)
(* and may call run_all_checks again.                                      *)
(***************************************************************************)
\* Bound on the further runs of one checker
MaxReruns == 1

RerunInventories == {PartialInventory, CicdInventory}

InitRerun ==
    /\ inventory \in RerunInventories
    /\ checks_config \in Catalogs
    /\ demo_mode \in BOOLEAN
    /\ results = <<>>
    /\ local = <<>>
    /\ pc = "idle"
    /\ call = 0
    /\ item = 0
    /\ log = <<>>
    /\ deviations = 0
    /\ fn = <<>>
    /\ ret = <<>>
    /\ config_exists = [inventory |-> TRUE, checks |-> TRUE]
    /\ args = [json |-> FALSE, quiet |-> FALSE]
    /\ exit_code = <<>>
    /\ summary = <<>>

\* Variant: the next run_all_checks without `self.results = []`
RunAgainKeepingResults ==
    /\ pc = "done"
    /\ Len(summary) < MaxReruns
    /\ summary' = Append(summary, [list |-> results,
                                    value |-> GetSummary(results)])
    /\ results' = results
    /\ local' = <<>>
    /\ log' = <<>>
    /\ call' = Seek(1)
    /\ item' = 1
    /\ pc' = IF Seek(1) > Len(RunOrder) THEN "done" ELSE "running"
    /\ UNCHANGED <<inventory, checks_config, demo_mode, deviations, fn, ret,
                   config_exists, args, exit_code>>

\* checker.get_summary() after run_all_checks has returned, then
\* run_all_checks once more on the same checker, up to its first check.
\* The runner results of the new run are drawn from what is left of the
\* budget of deviations.
RunAgain ==
    /\ pc = "done"
    /\ Len(summary) < MaxReruns
    /\ summary' = Append(summary, [list |-> results,
                                    value |-> GetSummary(results)])
    /\ results' = <<>>
    /\ local' = <<>>
    /\ log' = <<>>
    /\ call' = Seek(1)
    /\ item' = 1
    /\ pc' = IF Seek(1) > Len(RunOrder) THEN "done" ELSE "running"
    /\ UNCHANGED <<inventory, checks_config, demo_mode, deviations, fn, ret,
                   config_exists, args, exit_code>>

\* The first run_all_checks of a freshly constructed checker
FirstRun == pc = "idle" /\ RunAllChecks

NextRerun ==
    \/ FirstRun
    \/ CheckCicdServicesStep
    \/ CheckOsStep
    \/ CheckK8sClusterStep
    \/ CheckK8sServicesStep
    \/ CheckDatabasesStep
    \/ RunAgain

SpecRerun == InitRerun /\ [][NextRerun]_vars

IsPrefix(s, t) == Len(s) <= Len(t) /\ SubSeq(t, 1, Len(s)) = s

\* The runs before the one in progress or just ended left a summary
EarlierRuns == Len(summary)

\* C29: whatever runs came before, the result list holds the outcomes of
\* the most recent run and no other: run_all_checks starts from the empty
\* list, within a run the list only grows at its end, and at the end of the
\* run it has one outcome per iteration of this run, each the outcome of
\* the runner results of this run; the summary taken then counts this list.
C29_ResultListReset ==
    /\ [][(pc \in {"idle", "done"} /\ (pc' = "running" \/ summary' # summary))
             => results' = <<>>]_vars
    /\ [][pc = "running" => IsPrefix(results, results')]_vars
    /\ [](pc = "done" =>
            /\ FullChecklist
            /\ ~demo_mode =>
                   \A k \in 1..Len(results) :
                       IsRemoteCheck(results[k]) =>
                           /\ results[k].status
                                  = OutcomeFor(results[k], RawOf(results[k])).status
                           /\ results[k].value
                                  = OutcomeFor(results[k], RawOf(results[k])).value)
    /\ [](\A i \in 1..Len(summary) :
              summary[i].value = GetSummary(summary[i].list))

C29_Witness ==
    /\ pc = "done"
    /\ EarlierRuns > 0
    /\ Len(summary[1].list) > 0
    /\ results # <<>>
    /\ results # summary[1].list


(***************************************************************************)
(* to_dict: the flat report rows of the result list.  The keys of a row    *)
(* are written in Latin letters: check_id, name, category, environment,    *)
(* target, description, status, value, threshold, message, severity; the   *)
(* timestamp is left out as in CheckResult.                                *)
(***************************************************************************)
\* Variant: `if r.threshold is not None`
ThresholdDisplayUnlessNone(r) ==
    IF r.threshold # None
    THEN IntToStr(r.threshold[1]) \o Chars(r.unit)
    ELSE Chars("-")

\* f"{r.threshold}{r.unit}" if r.threshold else "-"
ThresholdDisplay(r) ==
    IF r.threshold # None /\ r.threshold[1] # 0
    THEN IntToStr(r.threshold[1]) \o Chars(r.unit)
    ELSE Chars("-")

ToDict(list) ==
    [k \in 1..Len(list) |->
        LET r == list[k]
        IN  [check_id    |-> r.check_id,
             name        |-> r.name,
             category    |-> r.category,
             environment |-> r.subcategory,
             target      |-> r.target,
             description |-> r.description,
             status      |-> r.status,
             value       |-> r.value,
             threshold   |-> ThresholdDisplay(r),
             message     |-> r.message,
             severity    |-> r.severity]]

\* all_results = checker.to_dict() after run_all_checks has returned
CallToDict ==
    /\ pc = "done"
    /\ fn' = [name |-> "to_dict"]
    /\ ret' = <<ToDict(results)>>
    /\ pc' = "reported"
    /\ UNCHANGED <<inventory, checks_config, demo_mode, results, local, call,
                   item, log, deviations, mainVars>>

NextReport ==
    \/ RunAllChecks
    \/ CheckCicdServicesStep
    \/ CheckOsStep
    \/ CheckK8sClusterStep
    \/ CheckK8sServicesStep
    \/ CheckDatabasesStep
    \/ CallToDict

SpecReport == Init /\ [][NextReport]_vars

\* The outcome carries a threshold to display: one that is set and is not 0
HasThreshold(r) == r.threshold # None /\ r.threshold[1] # 0

====
